---------------------------- MODULE Spec2Model ----------------------------
(***************************************************************************)
(* A model of the go-tz time-zone compiler: the transition resolver        *)
(* (internal/tzir), the zone compiler (tzc), the calendar helpers          *)
(* (internal/tzexpand, internal/unixtime) and the TZif structure with its  *)
(* validation and its encoding (tzif).                                     *)
(*                                                                         *)
(* Durations are whole seconds.  Instants are UNIX seconds.  The years of  *)
(* the modelled files lie around 1970 so that every instant fits TLC's     *)
(* integers.                                                               *)
(***************************************************************************)
EXTENDS Integers, Sequences, FiniteSets, TLC

VARIABLES
    file,       \* the tzdata.File handed to Compile
    pc,         \* where Compile / compileZone / Process / processZone stand
    pending,    \* Compile: zone names the range loop has not visited yet
    result,     \* Compile: the result map (zone name -> compiled data)
    ret,        \* Compile: what it returned (data map or nil, and the error)
    cur,        \* Compile: the zone name being compiled
    li,         \* Process: index of the zone line handed to processZone
    irzs,       \* Process: the zones resolved so far
    perr,       \* Process: the error it returned ("" if none)
    walkY,      \* processZone: y, the year of the walk
    walkOffset, \* processZone: its activeOffset parameter, updated by the walk
    irz,        \* processZone: the Zone under construction
    tzd,        \* tzif: the Data under test
    tzbytes,    \* tzif: the bytes Encode wrote
    tzdec,      \* tzif: what DecodeData returned
    tzval,      \* tzif: what Validate returned
    tpc,        \* tzif: position of the validate / encode / decode run
    v1stub,     \* tzc: which v1 stub the builder's minimalV1Compliance writes
    designations, \* appendDesignation: the designation pool
    added,      \* appendDesignation: the designations handed to it so far
    idxs,       \* appendDesignation: the indices it returned for them
    line,       \* Parse: the line the scanner handed over last
    lineNumber, \* Parse: the number of lines scanned
    continuationExpected, \* Parse: the line before had an UNTIL
    parsed,     \* Parse: result, the File under construction
    fields,     \* Parse: the fields splitLine made of the line
    branch,     \* Parse: the branch of the loop body the line took
    lineRet,    \* Parse: what the line parser of the branch returned
    parseRet,   \* Parse: whether and how it returned
    hasRet,     \* UntilPartsMask.Has: a call and what it returned
    cal         \* a calendar function or processZoneYear: a call and its result

vars == <<file, pc, pending, result, ret, cur, li, irzs, perr, walkY,
          walkOffset, irz, tzd, tzbytes, tzdec, tzval, tpc, v1stub,
          designations, added, idxs, line, lineNumber,
          continuationExpected, parsed, fields, branch, lineRet, parseRet,
          hasRet, cal>>

cvars == <<file, pc, pending, result, ret, cur, li, irzs, perr, walkY,
           walkOffset, irz, v1stub>>
tvars == <<tzd, tzbytes, tzdec, tzval, tpc>>
dvars == <<designations, added, idxs>>
pvars == <<line, lineNumber, continuationExpected, parsed, fields, branch,
           lineRet, parseRet, hasRet>>

\* What the steps of the compiler, of the tzif run, of appendDesignation
\* and of the parser leave alone.
notCompile == <<tvars, dvars, pvars, cal>>
notTzif == <<cvars, dvars, pvars, cal>>
notDesig == <<cvars, tvars, pvars, cal>>
notParse == <<cvars, tvars, dvars, cal>>
notCal == <<cvars, tvars, dvars, pvars>>

----------------------------------------------------------------------------
(* Go integer arithmetic: / truncates toward zero, % takes the sign of the *)
(* dividend.                                                               *)

GoDiv(a, b) == IF a >= 0 THEN a \div b ELSE -((-a) \div b)
GoMod(a, b) == a - b * GoDiv(a, b)

Min2(a, b) == IF a < b THEN a ELSE b

----------------------------------------------------------------------------
(* internal/unixtime                                                       *)

secondsPerMinute == 60
secondsPerHour == 60 * secondsPerMinute
secondsPerDay == 24 * secondsPerHour
daysPer400Years == 365 * 400 + 97
daysPer100Years == 365 * 100 + 24
daysPer4Years == 365 * 4 + 1

\* absoluteZeroYear is -292277022399 = -(400 * 730692555 + 399).  The model
\* drops the 730692555 whole 400-year cycles from both daysSinceEpoch and
\* absoluteToInternal, where they cancel: y below is year - absoluteZeroYear
\* less those cycles, and the cycle arithmetic on it is that of the source.
absoluteZeroYearMod400 == -399

\* Days of (absoluteToInternal + internalToUnix) left after the dropped
\* cycles: one 400-year cycle and the 719162 days from year 1 to 1970.
unixToInternalDays == 1969 * 365 + 1969 \div 4 - 1969 \div 100 + 1969 \div 400
absoluteToUnixDays == daysPer400Years + unixToInternalDays

daysSinceStartOfYear == <<0, 31, 59, 90, 120, 151, 181, 212, 243, 273, 304, 334>>

\* daysSinceEpoch without its 100-year cycles.
daysSinceEpochJulian(year) ==
    365 * (year - absoluteZeroYearMod400)
    + (year - absoluteZeroYearMod400) \div 4

daysSinceEpoch(year) ==
    LET y0 == year - absoluteZeroYearMod400
        n400 == y0 \div 400
        y1 == y0 - 400 * n400
        n100 == y1 \div 100
        y2 == y1 - 100 * n100
        n4 == y2 \div 4
        y3 == y2 - 4 * n4
    IN  daysPer400Years * n400 + daysPer100Years * n100 + daysPer4Years * n4
        + 365 * y3

\* The days of FromDateTime: d less the days of absoluteToInternal +
\* internalToUnix, that is the days from 1970-01-01 to the date.
daysFromDateTime(year, month, day) ==
    LET d0 == daysSinceEpoch(year) + daysSinceStartOfYear[month] + (day - 1)
        dl == IF month > 2 /\ (GoMod(year, 4) = 0
                               /\ (GoMod(year, 100) # 0 \/ GoMod(year, 400) = 0))
              THEN d0 + 1 ELSE d0
    IN  dl - absoluteToUnixDays

\* The seconds of FromDateTime within the day.
secondsFromDateTime(hour, minute, second) ==
    hour * secondsPerHour + minute * secondsPerMinute + second

FromDateTime(year, month, day, hour, minute, second) ==
    daysFromDateTime(year, month, day) * secondsPerDay
    + secondsFromDateTime(hour, minute, second)

----------------------------------------------------------------------------
(* internal/tzexpand: the calendar                                         *)

\* tzdata: the forms of a Time, of a Day and of a zone's RULES column.
WallClock == "WallClock"
StandardTime == "StandardTime"
DaylightSavingTime == "DaylightSavingTime"
UniversalTime == "UniversalTime"

ZoneRulesStandard == "Standard"
ZoneRulesName == "Name"
ZoneRulesTime == "Time"

DayFormNum == "DayNum"
DayFormLast == "Last"
DayFormAfter == "After"
DayFormBefore == "Before"

isLeapYear(year) ==
    GoMod(year, 4) = 0 /\ (GoMod(year, 100) # 0 \/ GoMod(year, 400) = 0)

daysInMonth(month, year) ==
    IF month = 2 THEN (IF isLeapYear(year) THEN 29 ELSE 28)
    ELSE IF month \in {4, 6, 9, 11} THEN 30 ELSE 31

calculateDayOfWeek(day, month, year) ==
    LET m == IF month < 3 THEN month + 12 ELSE month
        yr == IF month < 3 THEN year - 1 ELSE year
        k == GoMod(yr, 100)
        j == GoDiv(yr, 100)
        h == GoMod(day + GoDiv(13 * (m + 1), 5) + k + GoDiv(k, 4) + GoDiv(j, 4)
                   + 5 * j, 7)
    IN  GoMod(h + 6, 7)

lastWeekdayOfMonth(year, month, weekday) ==
    LET lastDay == daysInMonth(month, year)
        lastDayWeekday == calculateDayOfWeek(lastDay, month, year)
        off == GoMod(lastDayWeekday - weekday + 7, 7)
    IN  lastDay - off

nextWeekday(year, month, day, targetWeekday) ==
    LET dayOfWeek == calculateDayOfWeek(day, month, year)
        diff0 == targetWeekday - dayOfWeek
        diff == IF diff0 < 0 THEN diff0 + 7 ELSE diff0
        nextOccurrence == day + diff
        daysInCurrentMonth == daysInMonth(month, year)
    IN  IF nextOccurrence > daysInCurrentMonth
        THEN IF month + 1 > 12
             THEN <<year + 1, 1, nextOccurrence - daysInCurrentMonth>>
             ELSE <<year, month + 1, nextOccurrence - daysInCurrentMonth>>
        ELSE <<year, month, nextOccurrence>>

lastWeekday(year, month, day, targetWeekday) ==
    LET dayOfWeek == calculateDayOfWeek(day, month, year)
        diff0 == dayOfWeek - targetWeekday
        diff == IF diff0 < 0 THEN diff0 + 7 ELSE diff0
        lastOccurrence == day - diff
    IN  IF lastOccurrence < 1
        THEN LET pm == IF month - 1 < 1 THEN 12 ELSE month - 1
                 py == IF month - 1 < 1 THEN year - 1 ELSE year
             IN  <<py, pm, daysInMonth(pm, py) + lastOccurrence>>
        ELSE <<year, month, lastOccurrence>>

\* DayOfMonth resolves a tzdata.Day in a month of a year to <<y, m, day>>.
DayOfMonth(year, month, dy) ==
    CASE dy.Form = DayFormNum -> <<year, month, dy.Num>>
      [] dy.Form = DayFormLast ->
            <<year, month, lastWeekdayOfMonth(year, month, dy.Day)>>
      [] dy.Form = DayFormAfter -> nextWeekday(year, month, dy.Num, dy.Day)
      [] dy.Form = DayFormBefore -> lastWeekday(year, month, dy.Num, dy.Day)

\* The three int(t / unit) conversions shared by tzir.splitTime and
\* tzexpand.Earliest: each is the whole duration in that unit.
splitTime(t) ==
    <<GoDiv(t, secondsPerHour), GoDiv(t, secondsPerMinute), t>>

\* tzexpand.earliest: the missing trailing parts of an UNTIL take their
\* earliest value.  Parts is the set of the parts given.
earliestMonth(u) ==
    IF "month" \notin u.Parts
    THEN [u EXCEPT !.Month = 1, !.Parts = @ \cup {"month"}] ELSE u

\* The day of u replaced by the day number r = DayOfMonth(...) resolved.
earliestResolved(u, r) ==
    [u EXCEPT !.Year = r[1], !.Month = r[2],
              !.Day = [Form |-> DayFormNum, Num |-> r[3], Day |-> 0]]

earliestDay(u) ==
    IF "day" \in u.Parts
    THEN IF u.Day.Form # DayFormNum
         THEN earliestResolved(u, DayOfMonth(u.Year, u.Month, u.Day))
         ELSE u
    ELSE [u EXCEPT !.Day = [Form |-> DayFormNum, Num |-> 1, Day |-> 0],
                   !.Parts = @ \cup {"day"}]

earliestTime(u) ==
    IF "time" \notin u.Parts
    THEN [u EXCEPT !.Time = [TimeOfDay |-> 0, Form |-> WallClock],
                   !.Parts = @ \cup {"time"}]
    ELSE u

earliest(u) ==
    IF ~u.Defined THEN u ELSE earliestTime(earliestDay(earliestMonth(u)))

\* Earliest after e := earliest(u).
EarliestOf(e) ==
    FromDateTime(e.Year, e.Month, e.Day.Num,
                 splitTime(e.Time.TimeOfDay)[1], splitTime(e.Time.TimeOfDay)[2],
                 splitTime(e.Time.TimeOfDay)[3])

Earliest(u) == EarliestOf(earliest(u))

----------------------------------------------------------------------------
(* internal/tzir: the transition resolver.  A string is the sequence of    *)
(* its bytes.                                                              *)

\* The year sentinel of an open-ended rule (math.MaxInt in the source; only
\* compared with years, never computed with).
MaxYear == 2147483647

\* The year at which the walk gives up.
SafetyBound == 9999

\* Process declares activeOffset and never assigns it.
activeOffset == 0

PercentS == <<37, 115>>

Contains(s, sub) ==
    \E i \in 1..(Len(s) - Len(sub) + 1) : SubSeq(s, i, i + Len(sub) - 1) = sub

RECURSIVE ReplaceAll(_, _, _)
ReplaceAll(s, old, new) ==
    IF Len(s) < Len(old) THEN s
    ELSE IF SubSeq(s, 1, Len(old)) = old
         THEN new \o ReplaceAll(SubSeq(s, Len(old) + 1, Len(s)), old, new)
         ELSE <<s[1]>> \o ReplaceAll(Tail(s), old, new)

designation(format, letter) ==
    IF Contains(format, PercentS) THEN ReplaceAll(format, PercentS, letter)
    ELSE format

ruleOffset(z, r) == z.Offset + r.Save.TimeOfDay

validForever(z, rs) ==
    IF z.Until.Defined THEN FALSE
    ELSE \A i \in 1..Len(rs) : rs[i].To = MaxYear

RECURSIVE MinFrom(_, _, _)
MinFrom(rs, i, acc) ==
    IF i > Len(rs) THEN acc ELSE MinFrom(rs, i + 1, Min2(acc, rs[i].From))

firstYear(rs) == IF Len(rs) = 0 THEN 0 ELSE MinFrom(rs, 1, rs[1].From)

activeRules(rs, year) ==
    SelectSeq(rs, LAMBDA r : r.From <= year /\ r.To >= year)

ruleOccurrenceIn(r, year) ==
    LET ymd == DayOfMonth(year, r.In, r.On)
        hms == splitTime(r.At.TimeOfDay)
    IN  FromDateTime(ymd[1], ymd[2], ymd[3], hms[1], hms[2], hms[3])

\* findRules: the rule lines of that name; the error is the empty result.
findRules(l, name) == SelectSeq(l, LAMBDA r : r.Name = name)

NoRule ==
    [Name |-> "", From |-> 0, To |-> 0, In |-> 0,
     On |-> [Form |-> DayFormNum, Num |-> 0, Day |-> 0],
     At |-> [TimeOfDay |-> 0, Form |-> WallClock],
     Save |-> [TimeOfDay |-> 0, Form |-> WallClock], Letter |-> <<>>]

NoTransition ==
    [Rule |-> NoRule, UTOccY |-> 0, UTOcc |-> 0, Occ |-> 0, Off |-> 0,
     Dst |-> FALSE, Desig |-> <<>>]

\* sort.Slice on at most 12 elements is an insertion sort: an element moves
\* left past the elements with a greater UTOcc only.
RECURSIVE Insert(_, _)
Insert(sorted, t) ==
    IF Len(sorted) = 0 THEN <<t>>
    ELSE IF t.UTOcc < sorted[Len(sorted)].UTOcc
         THEN Append(Insert(SubSeq(sorted, 1, Len(sorted) - 1), t),
                     sorted[Len(sorted)])
         ELSE Append(sorted, t)

RECURSIVE SortByUTOcc(_, _, _)
SortByUTOcc(all, i, acc) ==
    IF i > Len(all) THEN acc ELSE SortByUTOcc(all, i + 1, Insert(acc, all[i]))

\* sort.Slice on more than 12 elements is the pattern-defeating quicksort of
\* Go's sort package, which Go documents as not stable.  The operators below
\* follow it for a slice of maxInsertion + 1 elements: one partition, both
\* sides of which have at most maxInsertion elements and are sorted by
\* insertion.  Indices count from zero, as in Go.
maxInsertion == 12

less(data, i, j) == data[i + 1].UTOcc < data[j + 1].UTOcc

Swap(data, i, j) ==
    [data EXCEPT ![i + 1] = data[j + 1], ![j + 1] = data[i + 1]]

\* order2: <<x, y, swaps>> where x, y is a, b or b, a and data[x] <= data[y].
order2(data, a, b, swaps) ==
    IF less(data, b, a) THEN <<b, a, swaps + 1>> ELSE <<a, b, swaps>>

\* median: <<x, swaps>> where data[x] is the median of data[a], data[b] and
\* data[c].
median(data, a, b, c) ==
    LET ab == order2(data, a, b, 0)
        bc == order2(data, ab[2], c, ab[3])
        ab2 == order2(data, ab[1], bc[1], bc[3])
    IN  <<ab2[2], ab2[3]>>

\* choosePivot for 8 to 49 elements: the median of the elements at the three
\* quarters, and the count of swaps (0 is the hint that data is increasing).
choosePivot(data, a, b) ==
    median(data, a + (b - a) \div 4, a + ((b - a) \div 4) * 2,
           a + ((b - a) \div 4) * 3)

\* partialInsertionSort for less than 50 elements: it shifts nothing and
\* reports whether data is sorted.
partialInsertionSort(data, a, b) ==
    \A i \in (a + 1)..(b - 1) : ~less(data, i, i - 1)

RECURSIVE scanUp(_, _, _, _)
scanUp(data, a, i, j) ==
    IF i <= j /\ less(data, i, a) THEN scanUp(data, a, i + 1, j) ELSE i

RECURSIVE scanDown(_, _, _, _)
scanDown(data, a, i, j) ==
    IF i <= j /\ ~less(data, j, a) THEN scanDown(data, a, i, j - 1) ELSE j

\* partition, with the pivot at a: the elements less than the pivot go
\* before it.  i and j bound the elements not yet partitioned.
RECURSIVE partitionFrom(_, _, _, _)
partitionFrom(data, a, i, j) ==
    IF scanUp(data, a, i, j) > scanDown(data, a, scanUp(data, a, i, j), j)
    THEN [data |-> Swap(data, scanDown(data, a, scanUp(data, a, i, j), j), a),
          mid |-> scanDown(data, a, scanUp(data, a, i, j), j)]
    ELSE partitionFrom(Swap(data, scanUp(data, a, i, j),
                            scanDown(data, a, scanUp(data, a, i, j), j)),
                       a, scanUp(data, a, i, j) + 1,
                       scanDown(data, a, scanUp(data, a, i, j), j) - 1)

partition(data, a, b, pivot) ==
    partitionFrom(Swap(data, a, pivot), a, a + 1, b - 1)

\* The two sides of the partition p of the whole slice, each sorted by
\* insertion.
sortSides(p) ==
    SortByUTOcc(SubSeq(p.data, 1, p.mid), 1, <<>>)
        \o <<p.data[p.mid + 1]>>
        \o SortByUTOcc(SubSeq(p.data, p.mid + 2, Len(p.data)), 1, <<>>)

\* pdqsort on a slice of maxInsertion + 1 elements.
pdqsort(data) ==
    IF /\ choosePivot(data, 0, Len(data))[2] = 0
       /\ partialInsertionSort(data, 0, Len(data))
    THEN data
    ELSE sortSides(partition(data, 0, Len(data),
                             choosePivot(data, 0, Len(data))[1]))

\* sort.Slice(all, func(i, j int) bool { return all[i].UTOcc < all[j].UTOcc }).
sortSlice(all) ==
    IF Len(all) <= maxInsertion THEN SortByUTOcc(all, 1, <<>>)
    ELSE pdqsort(all)

\* processZoneYear, first pass: one candidate per active rule.
Candidates(z, year, ars) ==
    [i \in 1..Len(ars) |->
        [Rule |-> ars[i], UTOccY |-> year, UTOcc |-> ruleOccurrenceIn(ars[i], year),
         Occ |-> 0, Off |-> ruleOffset(z, ars[i]),
         Dst |-> (ars[i].Save.Form = DaylightSavingTime),
         Desig |-> designation(z.Format, ars[i].Letter)]]

\* processZoneYear, second pass over the sorted candidates from the i-th on.
\* untilAt is tzexpand.Earliest(z.Until), read only when the UNTIL is defined.
RECURSIVE ApplyYear(_, _, _, _, _, _)
ApplyYear(z, untilAt, all, i, off, actual) ==
    IF i > Len(all)
    THEN [transitions |-> actual, offset |-> off, expired |-> FALSE,
          expiredAt |-> 0]
    ELSE LET t == [all[i] EXCEPT !.Occ = all[i].UTOcc - off]
             newOff == t.Off
             until == untilAt - newOff + z.Offset
         IN  IF z.Until.Defined /\ t.Occ > until
             THEN [transitions |-> actual, offset |-> newOff, expired |-> TRUE,
                   expiredAt |-> until]
             ELSE ApplyYear(z, untilAt, all, i + 1, newOff, Append(actual, t))

processZoneYear(z, year, ars, off) ==
    ApplyYear(z, Earliest(z.Until), sortSlice(Candidates(z, year, ars)),
              1, off, <<>>)

\* processZone's result for a zone line without rules (RULES "-" or a time).
FixedZone(z) ==
    [Line |-> z, Transitions |-> <<>>, Expires |-> FALSE, ExpiresAt |-> 0,
     FirstStdTransition |->
        [NoTransition EXCEPT !.Off = z.Rules.Time.TimeOfDay + z.Offset,
                             !.Dst = (z.Rules.Form = ZoneRulesTime),
                             !.Desig = designation(z.Format, <<>>)],
     HasStdTransition |-> TRUE]

EmptyZone(z) ==
    [Line |-> z, Transitions |-> <<>>, Expires |-> FALSE, ExpiresAt |-> 0,
     FirstStdTransition |-> NoTransition, HasStdTransition |-> FALSE]

\* The first transition of ts that is not DST, if any.
FirstStd(ts) ==
    LET idx == {i \in 1..Len(ts) : ~ts[i].Dst}
    IN  IF idx = {} THEN 0 ELSE CHOOSE i \in idx : \A j \in idx : i <= j

----------------------------------------------------------------------------
(* tzif: the structure.  Header.Reserved (15 bytes written and read back   *)
(* verbatim) is left out.                                                  *)

V1 == 0
V2 == 50
V3 == 51
V4 == 52

Header(version, isutcnt, isstdcnt, leapcnt, timecnt, typecnt, charcnt) ==
    [Version |-> version, Isutcnt |-> isutcnt, Isstdcnt |-> isstdcnt,
     Leapcnt |-> leapcnt, Timecnt |-> timecnt, Typecnt |-> typecnt,
     Charcnt |-> charcnt]

EmptyBlock ==
    [TransitionTimes |-> <<>>, TransitionTypes |-> <<>>,
     LocalTimeTypeRecord |-> <<>>, TimeZoneDesignation |-> <<>>,
     LeapSecondRecords |-> <<>>, StandardWallIndicators |-> <<>>,
     UTLocalIndicators |-> <<>>]

ZeroData ==
    [Version |-> V1, V1Header |-> Header(V1, 0, 0, 0, 0, 0, 0),
     V1Data |-> EmptyBlock, V2Header |-> Header(V1, 0, 0, 0, 0, 0, 0),
     V2Data |-> EmptyBlock, V2Footer |-> [TZString |-> <<>>]]

----------------------------------------------------------------------------
(* tzc: the builder compileZone fills.  Its source is not part of the      *)
(* repository snapshot; it is modelled after the specification's encoder   *)
(* section (designation pool with suffix sharing, local-time-type records, *)
(* a v1 stub with zero counts, a v2 header derived from the data).         *)

\* The v1 section of a v2 file.  The specification allows it to carry zero
\* counts; the other stub is the least v1 block with non-zero typecnt and
\* charcnt: one zeroed local time type record and the empty designation.
V1Stubs == {"zero counts", "one type"}

minimalV1Compliance(b) ==
    IF v1stub = "zero counts"
    THEN [b EXCEPT !.Version = V2, !.V1Header = Header(V2, 0, 0, 0, 0, 0, 0),
                   !.V1Data = EmptyBlock]
    ELSE [b EXCEPT !.Version = V2, !.V1Header = Header(V2, 0, 0, 0, 0, 1, 1),
                   !.V1Data =
                       [EmptyBlock EXCEPT
                           !.LocalTimeTypeRecord =
                               <<[Utoff |-> 0, Dst |-> FALSE, Idx |-> 0]>>,
                           !.TimeZoneDesignation = <<0>>]]

\* The start indices at which desig, NUL-terminated, already lies in pool.
DesignationIndices(pool, desig) ==
    {i \in 1..Len(pool) :
        /\ i + Len(desig) <= Len(pool)
        /\ SubSeq(pool, i, i + Len(desig)) = Append(desig, 0)}

\* The (zero-based) index of desig in the pool after it was added.
designationIndex(pool, desig) ==
    LET found == DesignationIndices(pool, desig)
    IN  IF found # {} THEN (CHOOSE i \in found : \A j \in found : i <= j) - 1
        ELSE Len(pool)

addDesignation(b, desig) ==
    IF DesignationIndices(b.V2Data.TimeZoneDesignation, desig) # {} THEN b
    ELSE [b EXCEPT !.V2Data.TimeZoneDesignation = @ \o Append(desig, 0)]

typeRecord(b, t) ==
    [Utoff |-> t.Off, Dst |-> t.Dst,
     Idx |-> designationIndex(b.V2Data.TimeZoneDesignation, t.Desig)]

\* The record rec joins the local time type records unless it is there.
addRecord(b, rec) ==
    IF \E i \in 1..Len(b.V2Data.LocalTimeTypeRecord) :
           b.V2Data.LocalTimeTypeRecord[i] = rec
    THEN b
    ELSE [b EXCEPT !.V2Data.LocalTimeTypeRecord = Append(@, rec)]

\* The local time type record of t, once its designation is in the pool.
addTypeOf(b, t) == addRecord(b, typeRecord(b, t))

addLocalTimeTypeRecord(b, t) == addTypeOf(addDesignation(b, t.Desig), t)

\* The (zero-based) index of rec in the local time type records.
typeIndex(recs, rec) == (CHOOSE i \in 1..Len(recs) : recs[i] = rec) - 1

\* The transition t joins the data, once its type record is there.
addTimeOf(b, t) ==
    [b EXCEPT !.V2Data.TransitionTimes = Append(@, t.Occ),
              !.V2Data.TransitionTypes =
                  Append(@, typeIndex(b.V2Data.LocalTimeTypeRecord,
                                      typeRecord(b, t)))]

addTransition(b, t) == addTimeOf(addLocalTimeTypeRecord(b, t), t)

setFooter(b, str) == [b EXCEPT !.V2Footer.TZString = str]

deriveV2HeaderFromData(b) ==
    [b EXCEPT !.V2Header =
        Header(b.Version, Len(b.V2Data.UTLocalIndicators),
               Len(b.V2Data.StandardWallIndicators),
               Len(b.V2Data.LeapSecondRecords), Len(b.V2Data.TransitionTimes),
               Len(b.V2Data.LocalTimeTypeRecord),
               Len(b.V2Data.TimeZoneDesignation))]

RECURSIVE addTransitions(_, _, _)
addTransitions(b, ts, i) ==
    IF i > Len(ts) THEN b ELSE addTransitions(addTransition(b, ts[i]), ts, i + 1)

RECURSIVE addDesignations(_, _, _)
addDesignations(b, ts, i) ==
    IF i > Len(ts) THEN b
    ELSE addDesignations(addDesignation(b, ts[i].Desig), ts, i + 1)

----------------------------------------------------------------------------
(* tzc: compileZone.  The Zone fields it reads as InitialTransition and    *)
(* HasInitialTransition are tzir's FirstStdTransition and HasStdTransition.*)

\* First loop over the zones: the designations in order of appearance.
RECURSIVE zoneDesignations(_, _, _)
zoneDesignations(b, zs, i) ==
    IF i > Len(zs) THEN b
    ELSE zoneDesignations(
             IF zs[i].Expires THEN addDesignations(b, zs[i].Transitions, 1)
             ELSE IF Len(zs[i].Transitions) > 0
                  THEN addDesignation(b, zs[i].Transitions[1].Desig)
                  ELSE b,
             zs, i + 1)

\* The zones after the first transition of the first zone was moved back by
\* the initial record's offset.
adjustFirst(zs) ==
    IF Len(zs[1].Transitions) > 0
    THEN [zs EXCEPT ![1].Transitions[1].Occ = @ - zs[1].FirstStdTransition.Off]
    ELSE zs

\* The transition that chains an expiring zone z to the zone next.
chaining(z, next) == [next.FirstStdTransition EXCEPT !.Occ = z.ExpiresAt]

\* Second loop over the zones, from the i-th on: the transitions of every
\* expiring zone and the transition that chains it to the next zone.  em is
\* the list of the transitions handed to addTransition so far.
RECURSIVE zoneTransitions(_, _, _, _)
zoneTransitions(b, em, zs, i) ==
    IF i > Len(zs) THEN [err |-> "", b |-> b, emitted |-> em]
    ELSE IF ~zs[i].Expires THEN zoneTransitions(b, em, zs, i + 1)
    ELSE IF i = Len(zs)
         THEN [err |-> "final zone must not expire", b |-> b,
               emitted |-> em \o zs[i].Transitions]
    ELSE IF ~zs[i + 1].HasStdTransition
         THEN [err |-> "zone without standard time transition", b |-> b,
               emitted |-> em \o zs[i].Transitions]
    ELSE zoneTransitions(
             addTransition(addTransitions(b, zs[i].Transitions, 1),
                           chaining(zs[i], zs[i + 1])),
             Append(em \o zs[i].Transitions, chaining(zs[i], zs[i + 1])),
             zs, i + 1)

FooterTODO == <<84, 79, 68, 79>>

\* compileZone from the dummy transition on: r is what the second loop left.
dummyNeeded(zs, r) ==
    /\ Len(r.b.V2Data.TransitionTimes) = 0
    /\ Len(r.b.V2Data.LocalTimeTypeRecord) = 1
    /\ Len(zs[1].Transitions) > 0

finishZone(zs, r) ==
    IF r.err # ""
    THEN [err |-> r.err, data |-> ZeroData, emitted |-> r.emitted]
    ELSE IF dummyNeeded(zs, r)
    THEN [err |-> "", emitted |-> Append(r.emitted, zs[1].Transitions[1]),
          data |-> deriveV2HeaderFromData(
                       setFooter(addTransition(r.b, zs[1].Transitions[1]),
                                 FooterTODO))]
    ELSE [err |-> "", emitted |-> r.emitted,
          data |-> deriveV2HeaderFromData(setFooter(r.b, FooterTODO))]

\* compileZone from the second loop on: b holds the designations and the
\* initial record, zs the zones with the first transition adjusted.
transitionsOf(b, zs) == finishZone(zs, zoneTransitions(b, <<>>, zs, 1))

\* compileZone after tzir.Process returned zs (its error is only printed).
compileZone(zs) ==
    IF Len(zs) = 0
    THEN [err |-> "no zones found", data |-> ZeroData, emitted |-> <<>>]
    ELSE IF ~zs[1].HasStdTransition
    THEN [err |-> "unable to determine initial record", data |-> ZeroData,
          emitted |-> <<>>]
    ELSE transitionsOf(
             addLocalTimeTypeRecord(
                 zoneDesignations(minimalV1Compliance(ZeroData), zs, 1),
                 zs[1].FirstStdTransition),
             adjustFirst(zs))

----------------------------------------------------------------------------
(* tzif: Validate.  The errors are named by the check that failed, in the  *)
(* order the checks are made.                                              *)

Check(failed, name) == IF failed THEN <<name>> ELSE <<>>

\* validateBlock without the comparison of the numbers of transition times
\* and types.
validateBlockTimesOnly(header, data) ==
    Check(header.Isutcnt # 0 /\ header.Isutcnt # header.Typecnt, "isutcnt")
    \o Check(Len(data.UTLocalIndicators) # header.Isutcnt, "isutcnt data")
    \o Check(header.Isstdcnt # 0 /\ header.Isstdcnt # header.Typecnt, "isstdcnt")
    \o Check(Len(data.StandardWallIndicators) # header.Isstdcnt, "isstdcnt data")
    \o Check(Len(data.LeapSecondRecords) # header.Leapcnt, "leapcnt data")
    \o Check(Len(data.TransitionTimes) # header.Timecnt, "timecnt data")
    \o Check(header.Typecnt = 0, "typecnt zero")
    \o Check(Len(data.LocalTimeTypeRecord) # header.Typecnt, "typecnt data")
    \o Check(header.Charcnt = 0, "charcnt zero")
    \o Check(Len(data.TimeZoneDesignation) # header.Charcnt, "charcnt data")
    \o Check(header.Charcnt > 0 /\ Len(data.TimeZoneDesignation) > 0
             /\ data.TimeZoneDesignation[Len(data.TimeZoneDesignation)] # 0,
             "missing null terminator")

\* The checks validateV1 and validateV2 share, on one header and its block.
validateBlock(header, data) ==
    Check(header.Isutcnt # 0 /\ header.Isutcnt # header.Typecnt, "isutcnt")
    \o Check(Len(data.UTLocalIndicators) # header.Isutcnt, "isutcnt data")
    \o Check(header.Isstdcnt # 0 /\ header.Isstdcnt # header.Typecnt, "isstdcnt")
    \o Check(Len(data.StandardWallIndicators) # header.Isstdcnt, "isstdcnt data")
    \o Check(Len(data.LeapSecondRecords) # header.Leapcnt, "leapcnt data")
    \o Check(Len(data.TransitionTimes) # header.Timecnt, "timecnt data")
    \o Check(Len(data.TransitionTimes) # Len(data.TransitionTypes), "transitions")
    \o Check(header.Typecnt = 0, "typecnt zero")
    \o Check(Len(data.LocalTimeTypeRecord) # header.Typecnt, "typecnt data")
    \o Check(header.Charcnt = 0, "charcnt zero")
    \o Check(Len(data.TimeZoneDesignation) # header.Charcnt, "charcnt data")
    \o Check(header.Charcnt > 0 /\ Len(data.TimeZoneDesignation) > 0
             /\ data.TimeZoneDesignation[Len(data.TimeZoneDesignation)] # 0,
             "missing null terminator")

\* The last check indexes TimeZoneDesignation[len - 1]: with a non-zero
\* charcnt and no designation bytes the index is -1 and Validate panics.
blockPanics(header, data) ==
    header.Charcnt > 0 /\ Len(data.TimeZoneDesignation) = 0

validateV1(dt) == validateBlock(dt.V1Header, dt.V1Data)

validateV2(dt) == validateBlock(dt.V2Header, dt.V2Data)

ValidatePanics(dt) ==
    \/ blockPanics(dt.V1Header, dt.V1Data)
    \/ dt.Version > V1 /\ blockPanics(dt.V2Header, dt.V2Data)

\* Validate: the joined errors; the empty sequence is the nil error.
Validate(dt) ==
    Check(dt.Version # dt.V1Header.Version
          \/ dt.V1Header.Version # dt.V2Header.Version, "version")
    \o validateV1(dt)
    \o (IF dt.Version > V1 THEN validateV2(dt) ELSE <<>>)

ValidateOK(dt) == ~ValidatePanics(dt) /\ Validate(dt) = <<>>

----------------------------------------------------------------------------
(* tzif: Encode and DecodeData, on bytes.  Integers are big-endian, signed *)
(* ones in two's complement.  The model's values lie in the int32 range,   *)
(* where an int64 is the int32 after four bytes of its sign.               *)

Magic == <<84, 90, 105, 102>>
asciiNewLine == 10

RECURSIVE Flatten(_)
Flatten(ss) == IF Len(ss) = 0 THEN <<>> ELSE Head(ss) \o Flatten(Tail(ss))

Take(bs, n) == SubSeq(bs, 1, Min2(n, Len(bs)))
Drop(bs, n) == SubSeq(bs, n + 1, Len(bs))
Zeros(n) == [i \in 1..n |-> 0]

\* binary.Write of a 32-bit and of a 64-bit integer, of a bool.
Put32(v) ==
    <<(v \div 16777216) % 256, (v \div 65536) % 256, (v \div 256) % 256, v % 256>>
Put64(v) == (IF v < 0 THEN <<255, 255, 255, 255>> ELSE <<0, 0, 0, 0>>) \o Put32(v)
PutBool(v) == IF v THEN <<1>> ELSE <<0>>

\* binary.Read of an int32 and of an int64, of a uint32 and of a bool.
GetS32(bs) ==
    (IF bs[1] >= 128 THEN bs[1] - 256 ELSE bs[1]) * 16777216
    + bs[2] * 65536 + bs[3] * 256 + bs[4]
GetS64(bs) == GetS32(Drop(bs, 4))
GetU32(bs) == bs[1] * 16777216 + bs[2] * 65536 + bs[3] * 256 + bs[4]
GetBool(bs) == bs[1] # 0

\* Header.Write: the magic, then the version, the 15 reserved bytes and the
\* six counts.
WriteHeader(h) ==
    Magic \o <<h.Version>> \o Zeros(15) \o Put32(h.Isutcnt) \o Put32(h.Isstdcnt)
    \o Put32(h.Leapcnt) \o Put32(h.Timecnt) \o Put32(h.Typecnt)
    \o Put32(h.Charcnt)

WriteRecord(r) == Put32(r.Utoff) \o PutBool(r.Dst) \o <<r.Idx>>

\* V1DataBlock.Write (w = 4) and V2DataBlock.Write (w = 8).
PutTime(w, v) == IF w = 4 THEN Put32(v) ELSE Put64(v)

WriteBlock(b, w) ==
    Flatten([i \in 1..Len(b.TransitionTimes) |-> PutTime(w, b.TransitionTimes[i])])
    \o b.TransitionTypes
    \o Flatten([i \in 1..Len(b.LocalTimeTypeRecord) |->
                    WriteRecord(b.LocalTimeTypeRecord[i])])
    \o b.TimeZoneDesignation
    \o Flatten([i \in 1..Len(b.LeapSecondRecords) |->
                    PutTime(w, b.LeapSecondRecords[i].Occur)
                    \o Put32(b.LeapSecondRecords[i].Corr)])
    \o Flatten([i \in 1..Len(b.StandardWallIndicators) |->
                    PutBool(b.StandardWallIndicators[i])])
    \o Flatten([i \in 1..Len(b.UTLocalIndicators) |->
                    PutBool(b.UTLocalIndicators[i])])

WriteFooter(f) == <<asciiNewLine>> \o f.TZString \o <<asciiNewLine>>

\* Data.Encode: writing to a buffer does not fail.
Encode(dt) ==
    WriteHeader(dt.V1Header) \o WriteBlock(dt.V1Data, 4)
    \o (IF dt.Version > V1
        THEN WriteHeader(dt.V2Header) \o WriteBlock(dt.V2Data, 8)
             \o WriteFooter(dt.V2Footer)
        ELSE <<>>)

GetByte(bs) == bs[1]
GetRecord(bs) ==
    [Utoff |-> GetS32(bs), Dst |-> GetBool(Drop(bs, 4)), Idx |-> bs[6]]
GetV1Leap(bs) == [Occur |-> GetS32(bs), Corr |-> GetS32(Drop(bs, 4))]
GetV2Leap(bs) == [Occur |-> GetS64(bs), Corr |-> GetS32(Drop(bs, 8))]

\* The value binary.Read decodes from the size bytes of one item of field name.
GetField(name, size, bs) ==
    CASE name = "TransitionTimes" -> IF size = 4 THEN GetS32(bs) ELSE GetS64(bs)
      [] name = "TransitionTypes" -> GetByte(bs)
      [] name = "LocalTimeTypeRecord" -> GetRecord(bs)
      [] name = "LeapSecondRecords" ->
             IF size = 8 THEN GetV1Leap(bs) ELSE GetV2Leap(bs)
      [] OTHER -> GetBool(bs)

\* What a read returns: the error (empty if none), what was read (a header h,
\* a block b or a footer f) and the bytes left in the reader.
\* binary.Read of the n items of field name, of size bytes each: nothing is
\* read for a zero count, and too few bytes are an error.
ReadField(s, n, size, name) ==
    IF s.err # "" \/ n = 0 THEN s
    ELSE IF Len(s.rest) < n * size THEN [s EXCEPT !.err = name]
    ELSE [s EXCEPT !.b = [@ EXCEPT ![name] =
                             [i \in 1..n |->
                                 GetField(name, size,
                                     SubSeq(s.rest, (i - 1) * size + 1, i * size))]],
                   !.rest = Drop(@, n * size)]

\* r.Read(b.TimeZoneDesignation): an error only at the end of the bytes; a
\* short read leaves the rest of the n bytes zero.
ReadDesignation(s, n) ==
    IF s.err # "" \/ n = 0 THEN s
    ELSE IF Len(s.rest) = 0 THEN [s EXCEPT !.err = "reading time zone designation"]
    ELSE [s EXCEPT !.b.TimeZoneDesignation =
                       Take(s.rest, n) \o Zeros(n - Len(Take(s.rest, n))),
                   !.rest = Drop(@, n)]

ReadV1DataBlock(bs, h) ==
    ReadField(ReadField(ReadField(ReadDesignation(ReadField(ReadField(ReadField(
        [err |-> "", b |-> EmptyBlock, rest |-> bs],
        h.Timecnt, 4, "TransitionTimes"),
        h.Timecnt, 1, "TransitionTypes"),
        h.Typecnt, 6, "LocalTimeTypeRecord"),
        h.Charcnt),
        h.Leapcnt, 8, "LeapSecondRecords"),
        h.Isstdcnt, 1, "StandardWallIndicators"),
        h.Isutcnt, 1, "UTLocalIndicators")

ReadV2DataBlock(bs, h) ==
    IF h.Version < V2
    THEN [err |-> "invalid header version", b |-> EmptyBlock, rest |-> bs]
    ELSE
    ReadField(ReadField(ReadField(ReadDesignation(ReadField(ReadField(ReadField(
        [err |-> "", b |-> EmptyBlock, rest |-> bs],
        h.Timecnt, 8, "TransitionTimes"),
        h.Timecnt, 1, "TransitionTypes"),
        h.Typecnt, 6, "LocalTimeTypeRecord"),
        h.Charcnt),
        h.Leapcnt, 12, "LeapSecondRecords"),
        h.Isstdcnt, 1, "StandardWallIndicators"),
        h.Isutcnt, 1, "UTLocalIndicators")

ZeroHeader == Header(V1, 0, 0, 0, 0, 0, 0)

ReadHeader(bs) ==
    IF Len(bs) < Len(Magic)
    THEN [err |-> "reading magic", h |-> ZeroHeader, rest |-> bs]
    ELSE IF Take(bs, Len(Magic)) # Magic
    THEN [err |-> "invalid magic", h |-> ZeroHeader, rest |-> Drop(bs, 4)]
    ELSE IF Len(bs) < 44
    THEN [err |-> "reading header", h |-> ZeroHeader, rest |-> <<>>]
    ELSE [err |-> "",
          h |-> Header(bs[5], GetU32(SubSeq(bs, 21, 24)),
                       GetU32(SubSeq(bs, 25, 28)), GetU32(SubSeq(bs, 29, 32)),
                       GetU32(SubSeq(bs, 33, 36)), GetU32(SubSeq(bs, 37, 40)),
                       GetU32(SubSeq(bs, 41, 44))),
          rest |-> Drop(bs, 44)]

\* The index of the first new line in bs, 0 if there is none.
FirstNewLine(bs) ==
    IF \E i \in 1..Len(bs) : bs[i] = asciiNewLine
    THEN CHOOSE i \in 1..Len(bs) :
            bs[i] = asciiNewLine /\ \A j \in 1..(i - 1) : bs[j] # asciiNewLine
    ELSE 0

\* ReadFooter: a new line, then the TZ string up to the next new line.
ReadFooter(bs) ==
    IF Len(bs) = 0 THEN [err |-> "reading newline", f |-> [TZString |-> <<>>]]
    ELSE IF bs[1] # asciiNewLine
    THEN [err |-> "expected newline", f |-> [TZString |-> <<>>]]
    ELSE IF FirstNewLine(Tail(bs)) = 0
    THEN [err |-> "reading TZ string", f |-> [TZString |-> <<>>]]
    ELSE [err |-> "",
          f |-> [TZString |-> SubSeq(Tail(bs), 1, FirstNewLine(Tail(bs)) - 1)]]

\* DecodeData, step by step; each step is handed what the step before read.
decodeFooter(dt, rf) ==
    [err |-> IF rf.err # "" THEN "read footer" ELSE "",
     data |-> [dt EXCEPT !.V2Footer = rf.f]]

decodeV2Data(dt, rb) ==
    IF rb.err # ""
    THEN [err |-> "read v2 data block", data |-> [dt EXCEPT !.V2Data = rb.b]]
    ELSE decodeFooter([dt EXCEPT !.V2Data = rb.b], ReadFooter(rb.rest))

decodeV2Header(dt, rh) ==
    IF rh.err # ""
    THEN [err |-> "read v2 header", data |-> [dt EXCEPT !.V2Header = rh.h]]
    ELSE decodeV2Data([dt EXCEPT !.V2Header = rh.h],
                      ReadV2DataBlock(rh.rest, rh.h))

decodeV1Data(dt, rb) ==
    IF rb.err # ""
    THEN [err |-> "read v1 data block", data |-> [dt EXCEPT !.V1Data = rb.b]]
    ELSE IF dt.Version > V1
    THEN decodeV2Header([dt EXCEPT !.V1Data = rb.b], ReadHeader(rb.rest))
    ELSE [err |-> "", data |-> [dt EXCEPT !.V1Data = rb.b]]

decodeV1Header(rh) ==
    IF rh.err # ""
    THEN [err |-> "read v1 header", data |-> [ZeroData EXCEPT !.V1Header = rh.h]]
    ELSE decodeV1Data([ZeroData EXCEPT !.V1Header = rh.h,
                                       !.Version = rh.h.Version],
                      ReadV1DataBlock(rh.rest, rh.h))

DecodeData(bs) == decodeV1Header(ReadHeader(bs))

----------------------------------------------------------------------------
(* The files the model compiles.                                           *)

\* The first year of the rules, and the most zone lines of a group.
BaseYear == 1970
MaxLines == 3

Hour == secondsPerHour

RuleLine(name, from, to, in, on, at, save, form, letter) ==
    [Name |-> name, From |-> from, To |-> to, In |-> in, On |-> on,
     At |-> [TimeOfDay |-> at, Form |-> WallClock],
     Save |-> [TimeOfDay |-> save, Form |-> form], Letter |-> letter]

LastSunday == [Form |-> DayFormLast, Num |-> 0, Day |-> 0]

\* Rule R <from> <to> - Mar lastSun 1:00 1:00 S
Spring(from, to) ==
    RuleLine("R", from, to, 3, LastSunday, Hour, Hour, DaylightSavingTime, <<83>>)

\* Rule R <from> <to> - Oct lastSun 2:00 0 -
Autumn(from, to) ==
    RuleLine("R", from, to, 10, LastSunday, 2 * Hour, 0, StandardTime, <<>>)

RuleYears == {BaseYear, BaseYear + 2}

RuleFiles ==
    {<<Spring(f1, t1), Autumn(f2, t2)>> :
        <<f1, t1, f2, t2>> \in
            {q \in RuleYears \X (RuleYears \cup {MaxYear})
                   \X RuleYears \X (RuleYears \cup {MaxYear}) :
                /\ q[2] \in {q[1], MaxYear}
                /\ q[4] \in {q[3], MaxYear}}}

NoUntil ==
    [Defined |-> FALSE, Parts |-> {}, Year |-> 0, Month |-> 0,
     Day |-> [Form |-> DayFormNum, Num |-> 0, Day |-> 0],
     Time |-> [TimeOfDay |-> 0, Form |-> WallClock]]

UntilInYear(year) == [NoUntil EXCEPT !.Defined = TRUE, !.Parts = {"year"},
                                   !.Year = year]

NoTime == [TimeOfDay |-> 0, Form |-> WallClock]

\* The RULES column: "-", "1:00", "R" (a rule set of the file), "Q" (none).
RulesColumns ==
    {[Form |-> ZoneRulesStandard, Name |-> "", Time |-> NoTime],
     [Form |-> ZoneRulesTime, Name |-> "",
      Time |-> [TimeOfDay |-> Hour, Form |-> DaylightSavingTime]],
     [Form |-> ZoneRulesName, Name |-> "R", Time |-> NoTime],
     [Form |-> ZoneRulesName, Name |-> "Q", Time |-> NoTime]}

\* FORMAT: "C%sT" with a rule set, "LMT" without.
FormatOf(rules) ==
    IF rules.Form = ZoneRulesName THEN <<67, 37, 115, 84>> ELSE <<76, 77, 84>>

ZoneLine(k, name, off, rules, until) ==
    [Continuation |-> k > 1, Name |-> IF k > 1 THEN "" ELSE name,
     Offset |-> off, Rules |-> rules, Format |-> FormatOf(rules),
     Until |-> until]

\* The UNTIL of the k-th line of a group, when it has one.
UntilOfLine(k) == UntilInYear(BaseYear + 2 * k)

\* The groups of n lines named name: every line but the last has an UNTIL,
\* the last has one or none.
Groups(name, n, offsets) ==
    {[k \in 1..n |->
         ZoneLine(k, name, c[k][1], c[k][2],
                  IF k < n \/ lastUntil THEN UntilOfLine(k) ELSE NoUntil)] :
        c \in [1..n -> offsets \X RulesColumns], lastUntil \in BOOLEAN}

OneZoneGroups ==
    UNION {Groups("Z", n, IF n < MaxLines THEN {0, Hour} ELSE {Hour}) :
              n \in 1..MaxLines}

\* Files of two zones, A and B, of one line each.
TwoZoneGroups ==
    {a \o b : a \in Groups("A", 1, {Hour}), b \in Groups("B", 1, {Hour})}

\* A rule file is finite when none of its rules is open-ended.
Finite(rl) == \A i \in 1..Len(rl) : rl[i].To # MaxYear

ForeverRules == <<Spring(BaseYear, MaxYear), Autumn(BaseYear, MaxYear)>>

\* One zone with every rule file that has an open-ended rule; one zone of at
\* most two lines with the finite rule files; two zones.
Files ==
    {[RuleLines |-> rl, ZoneLines |-> zl] :
        rl \in {r \in RuleFiles : ~Finite(r)}, zl \in OneZoneGroups}
    \cup {[RuleLines |-> rl, ZoneLines |-> zl] :
            rl \in {r \in RuleFiles : Finite(r)},
            zl \in Groups("Z", 1, {Hour}) \cup Groups("Z", 2, {Hour})}
    \cup {[RuleLines |-> ForeverRules, ZoneLines |-> zl] : zl \in TwoZoneGroups}

----------------------------------------------------------------------------
(* tzc.Compile, compileZone, tzir.Process and processZone as steps.        *)

\* Compile groups the zone lines under the name of the last Zone line.
RECURSIVE lastNameAt(_, _)
lastNameAt(zl, i) ==
    IF i = 0 THEN ""
    ELSE IF ~zl[i].Continuation THEN zl[i].Name ELSE lastNameAt(zl, i - 1)

zoneNames(f) == {lastNameAt(f.ZoneLines, i) : i \in 1..Len(f.ZoneLines)}

RECURSIVE linesOf(_, _, _)
linesOf(zl, name, i) ==
    IF i > Len(zl) THEN <<>>
    ELSE IF lastNameAt(zl, i) = name THEN <<zl[i]>> \o linesOf(zl, name, i + 1)
         ELSE linesOf(zl, name, i + 1)

\* The zone lines compileZone was called with.
Lines == linesOf(file.ZoneLines, cur, 1)

NoData == [n \in {} |-> ZeroData]

NoLine == ZoneLine(1, "", 0, [Form |-> ZoneRulesStandard, Name |-> "",
                              Time |-> NoTime], NoUntil)

CompileInit ==
    /\ file \in Files
    /\ pc = "compile"
    /\ pending = zoneNames(file)
    /\ result = NoData
    /\ ret = [nil |-> TRUE, data |-> NoData, err |-> ""]
    /\ cur = ""
    /\ li = 0
    /\ irzs = <<>>
    /\ perr = ""
    /\ walkY = 0
    /\ walkOffset = 0
    /\ irz = EmptyZone(NoLine)
    /\ v1stub \in V1Stubs

\* Compile's range over the zones map takes the next zone (in any order) and
\* calls compileZone, which calls Process.
CompileNext ==
    /\ pc = "compile"
    /\ pending # {}
    /\ \E name \in pending :
          /\ cur' = name
          /\ pending' = pending \ {name}
    /\ li' = 1
    /\ irzs' = <<>>
    /\ perr' = ""
    /\ pc' = "process"
    /\ UNCHANGED <<file, result, ret, walkY, walkOffset, irz, v1stub>>

\* Process after processZone returned zone z for line li.
ProcessAppend(z) ==
    /\ irzs' = Append(irzs, z)
    /\ li' = li + 1
    /\ pc' = IF li + 1 > Len(Lines) THEN "build" ELSE "process"

\* Process calls processZone(f, z, activeOffset) for the next line: up to
\* the first iteration of the year loop.
ProcessZone ==
    /\ pc = "process"
    /\ LET z == Lines[li]
           rs == findRules(file.RuleLines, z.Rules.Name)
       IN  IF z.Rules.Form \in {ZoneRulesStandard, ZoneRulesTime}
           THEN /\ ProcessAppend(FixedZone(z))
                /\ UNCHANGED <<perr, walkY, walkOffset, irz>>
           ELSE IF Len(rs) = 0
           THEN /\ perr' = "no rules found"
                /\ pc' = "build"
                /\ UNCHANGED <<li, irzs, walkY, walkOffset, irz>>
           ELSE /\ irz' = EmptyZone(z)
                /\ walkY' = firstYear(rs)
                /\ walkOffset' = activeOffset
                /\ pc' = "walk"
                /\ UNCHANGED <<li, irzs, perr>>
    /\ UNCHANGED <<file, pending, result, ret, cur, v1stub>>

\* processZone, after processZoneYear returned the transitions ts of which
\* the i-th is the first not in DST (0 if none): ts joins the zone and the
\* first standard time transition is remembered.
appendYear(z0, ts, i) ==
    IF ~z0.HasStdTransition /\ i # 0
    THEN [z0 EXCEPT !.Transitions = @ \o ts, !.FirstStdTransition = ts[i],
                    !.HasStdTransition = TRUE]
    ELSE [z0 EXCEPT !.Transitions = @ \o ts]

\* processZone, the end of an iteration: r is what processZoneYear returned for
\* the active rules ars, z2 the zone with the year's transitions.
WalkEnd(ars, r, z2) ==
    /\ walkOffset' = r.offset
    /\ IF validForever(z2.Line, ars)
       THEN /\ ProcessAppend(z2)
            /\ irz' = z2
            /\ UNCHANGED <<walkY, perr>>
       ELSE IF r.expired
       THEN /\ ProcessAppend([z2 EXCEPT !.Expires = TRUE,
                                        !.ExpiresAt = r.expiredAt])
            /\ irz' = [z2 EXCEPT !.Expires = TRUE, !.ExpiresAt = r.expiredAt]
            /\ UNCHANGED <<walkY, perr>>
       ELSE /\ walkY' = walkY + 1
            /\ irz' = z2
            /\ IF walkY + 1 = SafetyBound
               THEN /\ perr' = "error: y = 9999"
                    /\ pc' = "build"
               ELSE UNCHANGED <<perr, pc>>
            /\ UNCHANGED <<li, irzs>>

WalkYear(ars, r) ==
    WalkEnd(ars, r, appendYear(irz, r.transitions, FirstStd(r.transitions)))

WalkRules(ars) == WalkYear(ars, processZoneYear(irz.Line, walkY, ars, walkOffset))

\* The last year up to which the year loop is followed.
MaxWalkYear == 10100

\* One iteration of processZone's year loop.
ProcessZoneYear ==
    /\ pc = "walk"
    /\ walkY < MaxWalkYear
    /\ WalkRules(activeRules(findRules(file.RuleLines, irz.Line.Rules.Name),
                             walkY))
    /\ UNCHANGED <<file, pending, result, ret, cur, v1stub>>

\* Compile after compileZone returned cz: it validates the data and stores
\* it, or returns nil and the error.
CompileStore(cz) ==
    IF cz.err = "" /\ ValidateOK(cz.data)
    THEN /\ result' = [n \in DOMAIN result \cup {cur} |->
                          IF n = cur THEN cz.data ELSE result[n]]
         /\ pc' = "compile"
         /\ UNCHANGED ret
    ELSE /\ ret' = [nil |-> TRUE, data |-> NoData, err |-> cur]
         /\ pc' = "done"
         /\ UNCHANGED result

\* compileZone builds the data from what Process returned.
CompileZone ==
    /\ pc = "build"
    /\ CompileStore(compileZone(irzs))
    /\ UNCHANGED <<file, pending, cur, li, irzs, perr, walkY, walkOffset, irz,
                   v1stub>>

\* Compile returns the result map after the last zone.
CompileReturn ==
    /\ pc = "compile"
    /\ pending = {}
    /\ ret' = [nil |-> FALSE, data |-> result, err |-> ""]
    /\ pc' = "done"
    /\ UNCHANGED <<file, pending, result, cur, li, irzs, perr, walkY,
                   walkOffset, irz, v1stub>>

DesigIdle ==
    /\ designations = <<>>
    /\ added = <<>>
    /\ idxs = <<>>

\* No call of a calendar function.
CalIdle == cal = [op |-> "none", args |-> <<>>, ret |-> <<>>, done |-> FALSE]

\* The parser before its first line.
ParseIdle ==
    /\ line = ""
    /\ lineNumber = 0
    /\ continuationExpected = FALSE
    /\ parsed = [ZoneLines |-> <<>>, RuleLines |-> <<>>, LinkLines |-> <<>>,
                 LeapLines |-> <<>>, ExpiresLines |-> <<>>]
    /\ fields = <<>>
    /\ branch = "none"
    /\ lineRet = [v |-> <<>>, errs |-> <<>>, panics |-> FALSE]
    /\ parseRet = [done |-> FALSE, err |-> <<>>, panics |-> FALSE]
    /\ hasRet = [called |-> FALSE, p |-> {}, parts |-> {}, ret |-> FALSE]

TzifIdle ==
    /\ tzd = ZeroData
    /\ tzbytes = <<>>
    /\ tzdec = [err |-> "", data |-> ZeroData]
    /\ tzval = [panics |-> FALSE, errs |-> <<>>]
    /\ tpc = "idle"

Init == CompileInit /\ TzifIdle /\ DesigIdle /\ ParseIdle /\ CalIdle

Next ==
    \/ CompileNext /\ UNCHANGED notCompile
    \/ ProcessZone /\ UNCHANGED notCompile
    \/ ProcessZoneYear /\ UNCHANGED notCompile
    \/ CompileZone /\ UNCHANGED notCompile
    \/ CompileReturn /\ UNCHANGED notCompile

Spec == Init /\ [][Next]_vars

----------------------------------------------------------------------------
(* The tzif data the model validates, encodes and decodes.                 *)

\* The most transitions of a block, and the transition times.
MaxTransitions == 2
MaxTime == 1
MinTime == -MaxTime

SeqsUpTo(S, n) == UNION {[1..k -> S] : k \in 0..n}

\* Transition times and types: as many types as times, or one more or less.
Transitions ==
    {p \in SeqsUpTo(MinTime..MaxTime, MaxTransitions)
           \X SeqsUpTo({0, 1}, MaxTransitions) :
        \/ Len(p[1]) = Len(p[2])
        \/ Len(p[1]) + Len(p[2]) = 1}

TypeRecords ==
    {<<>>, <<[Utoff |-> 0, Dst |-> FALSE, Idx |-> 0]>>,
     <<[Utoff |-> -3600, Dst |-> TRUE, Idx |-> 0]>>}

\* Designations: none, "", "U" and an unterminated "U".
Designations == {<<>>, <<0>>, <<85, 0>>, <<85>>}

\* Leap second records and indicators: none, one leap second, one indicator
\* of each kind.
Extras ==
    {[leaps |-> <<>>, std |-> <<>>, ut |-> <<>>],
     [leaps |-> <<[Occur |-> 1, Corr |-> 1]>>, std |-> <<>>, ut |-> <<>>],
     [leaps |-> <<>>, std |-> <<TRUE>>, ut |-> <<FALSE>>]}

Blocks ==
    {[TransitionTimes |-> p[1], TransitionTypes |-> p[2],
      LocalTimeTypeRecord |-> recs, TimeZoneDesignation |-> desig,
      LeapSecondRecords |-> x.leaps, StandardWallIndicators |-> x.std,
      UTLocalIndicators |-> x.ut] :
        p \in Transitions, recs \in TypeRecords, desig \in Designations,
        x \in Extras}

\* The header whose counts are those of block b.
HeaderOf(version, b) ==
    Header(version, Len(b.UTLocalIndicators), Len(b.StandardWallIndicators),
           Len(b.LeapSecondRecords), Len(b.TransitionTimes),
           Len(b.LocalTimeTypeRecord), Len(b.TimeZoneDesignation))

Counts == {"Isutcnt", "Isstdcnt", "Leapcnt", "Timecnt", "Typecnt", "Charcnt"}

\* A header for block b: its own (c = ""), or its own with count c one too
\* high.
HeaderWith(version, b, c) ==
    IF c = "" THEN HeaderOf(version, b)
    ELSE [HeaderOf(version, b) EXCEPT ![c] = @ + 1]

\* TZ strings: empty, "U", and "U", a new line, "V".
TZStrings == {<<>>, <<85>>, <<85, asciiNewLine, 86>>}

\* The least valid v1 block: one local time type and the empty designation.
OneTypeBlock ==
    [EmptyBlock EXCEPT !.LocalTimeTypeRecord =
                           <<[Utoff |-> 0, Dst |-> FALSE, Idx |-> 0]>>,
                       !.TimeZoneDesignation = <<0>>]

\* Version 1 data: any block under any of its headers, no v2 section.
V1Datas ==
    {[ZeroData EXCEPT !.V1Header = HeaderWith(V1, b, c), !.V1Data = b] :
        b \in Blocks, c \in Counts \cup {""}}

\* The v1 sections of version 2 data: zero counts, or the least valid block.
V1Sections == {EmptyBlock, OneTypeBlock}

\* Version 2 data: a v1 section, any block under any of its headers as the
\* v2 section, and a footer.
V2Datas ==
    {[Version |-> V2, V1Header |-> HeaderOf(V2, b1), V1Data |-> b1,
      V2Header |-> HeaderWith(V2, b, c), V2Data |-> b,
      V2Footer |-> [TZString |-> str]] :
        b \in Blocks, c \in Counts \cup {""}, b1 \in V1Sections,
        str \in TZStrings}

\* Version bytes: those of the format, and 1, which is none of them.
Versions == {V1, 1, V2, V3, V4}

\* One valid version 2 structure under every choice of its three versions.
VersionDatas ==
    {[Version |-> v[1], V1Header |-> HeaderOf(v[2], OneTypeBlock),
      V1Data |-> OneTypeBlock, V2Header |-> HeaderOf(v[3], OneTypeBlock),
      V2Data |-> OneTypeBlock, V2Footer |-> [TZString |-> <<85>>]] :
        v \in Versions \X Versions \X Versions}

CompileIdle ==
    /\ file = [RuleLines |-> <<>>, ZoneLines |-> <<>>]
    /\ pc = "idle"
    /\ pending = {}
    /\ result = NoData
    /\ ret = [nil |-> TRUE, data |-> NoData, err |-> ""]
    /\ cur = ""
    /\ li = 0
    /\ irzs = <<>>
    /\ perr = ""
    /\ walkY = 0
    /\ walkOffset = 0
    /\ irz = EmptyZone(NoLine)
    /\ v1stub = "zero counts"

TzifInit ==
    /\ \/ tzd \in V1Datas
       \/ tzd \in V2Datas
       \/ tzd \in VersionDatas
    /\ tzbytes = <<>>
    /\ tzdec = [err |-> "", data |-> ZeroData]
    /\ tzval = [panics |-> FALSE, errs |-> <<>>]
    /\ tpc = "new"

\* Validate(d): it panics, or returns its errors joined.
DoValidate ==
    /\ tpc = "new"
    /\ tzval' = [panics |-> ValidatePanics(tzd),
                 errs |-> IF ValidatePanics(tzd) THEN <<>> ELSE Validate(tzd)]
    /\ tpc' = "validated"
    /\ UNCHANGED <<tzd, tzbytes, tzdec>>

\* d.Encode(w) on a buffer.
DoEncode ==
    /\ tpc = "validated"
    /\ tzbytes' = Encode(tzd)
    /\ tpc' = "encoded"
    /\ UNCHANGED <<tzd, tzdec, tzval>>

\* DecodeData(r) on the bytes written.
DoDecode ==
    /\ tpc = "encoded"
    /\ tzdec' = DecodeData(tzbytes)
    /\ tpc' = "decoded"
    /\ UNCHANGED <<tzd, tzbytes, tzval>>

InitTZif == CompileIdle /\ TzifInit /\ DesigIdle /\ ParseIdle /\ CalIdle

NextTZif ==
    \/ DoValidate /\ UNCHANGED notTzif
    \/ DoEncode /\ UNCHANGED notTzif
    \/ DoDecode /\ UNCHANGED notTzif

SpecTZif == InitTZif /\ [][NextTZif]_vars

----------------------------------------------------------------------------
(* Properties of the resolver and of the compiler, under Spec.             *)

AscendingOcc(ts) == \A i \in 1..(Len(ts) - 1) : ts[i].Occ < ts[i + 1].Occ

\* C1: the transitions compileZone emits for a zone group that compiles
\* (those of every expiring line in order and the chaining transition at
\* each expiry) have strictly ascending instants.
C1_EmittedAscending ==
    (pc = "build" /\ compileZone(irzs).err = "")
        => AscendingOcc(compileZone(irzs).emitted)

\* C2: the offset a continuation line's walk starts with is the offset the
\* walk of the line before it ended with; it is not reset to 0.
C2_OffsetCarried ==
    [][(/\ pc = "process" /\ pc' = "walk"
        /\ li > 1
        /\ irzs[li - 1].Line.Rules.Form = ZoneRulesName)
           => walkOffset' = walkOffset]_vars

\* C3: the walk of a line with a rule set and an UNTIL ends at the UNTIL with
\* an expired Zone, and never in the error of the safety bound.
C3_WalkHaltsAtUntil ==
    /\ ~(perr = "error: y = 9999" /\ irz.Line.Until.Defined)
    /\ \A i \in 1..Len(irzs) :
          (irzs[i].Line.Rules.Form = ZoneRulesName /\ irzs[i].Line.Until.Defined)
              => irzs[i].Expires

\* The rules of rs that end in year or later, active or still to begin.
remainingRules(rs, year) == SelectSeq(rs, LAMBDA r : r.To >= year)

\* C4: the walk of a line without UNTIL ends as final at a year only when a
\* rule is active in it and every rule that ends in that year or later, the
\* ones that begin later included, is open-ended.
C4_FinalOnlyWhenOpenEnded ==
    [][(pc = "walk" /\ pc' # "walk" /\ ~irz.Line.Until.Defined)
           => /\ activeRules(findRules(file.RuleLines, irz.Line.Rules.Name),
                             walkY) # <<>>
              /\ \A r \in {remainingRules(
                              findRules(file.RuleLines, irz.Line.Rules.Name),
                              walkY)[i] :
                              i \in 1..Len(remainingRules(
                                  findRules(file.RuleLines,
                                            irz.Line.Rules.Name), walkY))} :
                    r.To = MaxYear]_vars

\* The emitted transition e chains the line of zone z, at its UNTIL (give or
\* take a day for the offsets), to the initial record of zone next.
chains(e, z, next) ==
    /\ e.Occ - Earliest(z.Line.Until) <= secondsPerDay
    /\ Earliest(z.Line.Until) - e.Occ <= secondsPerDay
    /\ e.Off = next.FirstStdTransition.Off
    /\ e.Dst = next.FirstStdTransition.Dst
    /\ e.Desig = next.FirstStdTransition.Desig

\* C5: in a group that compiles, every line with an UNTIL that has a
\* continuation is followed by an emitted transition, at its expiry, to the
\* initial record of the continuation, whatever its RULES column holds.
C5_NoGap ==
    (pc = "build" /\ perr = "" /\ compileZone(irzs).err = "")
        => \A i \in 1..(Len(irzs) - 1) :
              irzs[i].Line.Until.Defined
                  => \E k \in 1..Len(compileZone(irzs).emitted) :
                        chains(compileZone(irzs).emitted[k], irzs[i],
                               irzs[i + 1])

\* C6: when Compile has returned, every zone of the file has been compiled,
\* and the data of every zone that compiled and validated is in what it
\* returned, whichever other zones failed.
C6_FailureDoesNotHalt ==
    pc = "done"
        => /\ pending = {}
           /\ \A n \in DOMAIN result :
                 ~ret.nil /\ n \in DOMAIN ret.data /\ ret.data[n] = result[n]

\* C7: when a line of the group names a rule set the file does not have,
\* compileZone returns an error, not data.
C7_MissingRulesFail ==
    (pc = "build" /\ perr = "no rules found") => compileZone(irzs).err # ""

----------------------------------------------------------------------------
(* Properties of tzif, under SpecTZif.                                     *)

\* Validate returned nil for the data.
Accepted == tpc # "new" /\ ~tzval.panics /\ tzval.errs = <<>>

\* C8: a structure Validate accepts is encoded, and decoding the bytes gives
\* no error and a structure equal to it in every field.
C8_RoundTrip ==
    (Accepted /\ tpc = "decoded") => (tzdec.err = "" /\ tzdec.data = tzd)

TypesInRange(h, b) ==
    \A i \in 1..Len(b.TransitionTypes) :
        0 <= b.TransitionTypes[i] /\ b.TransitionTypes[i] < h.Typecnt

\* C9: in a structure Validate accepts, every transition type of every data
\* block is less than the typecnt of the block's header.
C9_TypesInRange ==
    Accepted
        => /\ TypesInRange(tzd.V1Header, tzd.V1Data)
           /\ tzd.Version > V1 => TypesInRange(tzd.V2Header, tzd.V2Data)

AscendingTimes(b) ==
    \A i \in 1..(Len(b.TransitionTimes) - 1) :
        b.TransitionTimes[i] < b.TransitionTimes[i + 1]

\* C10: in a structure Validate accepts, the transition times of every data
\* block are strictly ascending; equal or descending times are rejected.
C10_TimesAscending ==
    Accepted
        => /\ AscendingTimes(tzd.V1Data)
           /\ tzd.Version > V1 => AscendingTimes(tzd.V2Data)

\* The v1 section is the minimal stub: six zero counts and an empty block.
MinimalStub(d) ==
    /\ d.Version > V1
    /\ d.V1Header = Header(d.Version, 0, 0, 0, 0, 0, 0)
    /\ d.V1Data = EmptyBlock

\* The v2 header's counts are those of the v2 block, which has a type and a
\* NUL-terminated designation, and as many transition types as times.
ConsistentV2(d) ==
    /\ d.V2Header = HeaderOf(d.Version, d.V2Data)
    /\ d.V2Header.Typecnt > 0
    /\ d.V2Header.Charcnt > 0
    /\ d.V2Data.TimeZoneDesignation[Len(d.V2Data.TimeZoneDesignation)] = 0
    /\ d.V2Header.Isutcnt \in {0, d.V2Header.Typecnt}
    /\ d.V2Header.Isstdcnt \in {0, d.V2Header.Typecnt}
    /\ Len(d.V2Data.TransitionTimes) = Len(d.V2Data.TransitionTypes)

\* C11: a v2 structure whose v1 section is the minimal stub and whose v2
\* section is consistent is accepted by Validate.
C11_MinimalStubAccepted ==
    (tpc # "new" /\ MinimalStub(tzd) /\ ConsistentV2(tzd)) => Accepted

\* Every count of header h is the length of what it counts in block b,
\* typecnt and charcnt are not zero, and isutcnt and isstdcnt are zero or
\* typecnt.
CountsConsistent(h, b) ==
    /\ h.Timecnt = Len(b.TransitionTimes)
    /\ h.Timecnt = Len(b.TransitionTypes)
    /\ h.Typecnt = Len(b.LocalTimeTypeRecord)
    /\ h.Charcnt = Len(b.TimeZoneDesignation)
    /\ h.Leapcnt = Len(b.LeapSecondRecords)
    /\ h.Isutcnt = Len(b.UTLocalIndicators)
    /\ h.Isstdcnt = Len(b.StandardWallIndicators)
    /\ h.Typecnt # 0
    /\ h.Charcnt # 0
    /\ h.Isutcnt \in {0, h.Typecnt}
    /\ h.Isstdcnt \in {0, h.Typecnt}

\* C12: in a structure Validate accepts, the counts of every block it covers
\* (the v1 block, and the v2 block of a v2+ structure) are consistent.
C12_AcceptedCountsConsistent ==
    Accepted
        => /\ CountsConsistent(tzd.V1Header, tzd.V1Data)
           /\ tzd.Version > V1 => CountsConsistent(tzd.V2Header, tzd.V2Data)

\* Validate accepted a v2 structure with transitions and indicators.
C12_Witness ==
    /\ Accepted
    /\ tzd.Version > V1
    /\ tzd.V2Header.Timecnt > 0
    /\ tzd.V2Header.Isutcnt > 0

\* The blocks Validate covers are consistent, and so are the three versions.
AllConsistent(d) ==
    /\ d.Version = d.V1Header.Version
    /\ d.V1Header.Version = d.V2Header.Version
    /\ CountsConsistent(d.V1Header, d.V1Data)
    /\ d.Version > V1 => CountsConsistent(d.V2Header, d.V2Data)

\* C13: Validate goes through all its checks on every structure: it never
\* aborts, and it returns an error whenever the structure is inconsistent.
C13_ValidateReportsAll ==
    tpc # "new"
        => /\ ~tzval.panics
           /\ ~AllConsistent(tzd) => tzval.errs # <<>>

-----------------------------------------------------------------------------
(* tzc: appendDesignation, the designation pool with suffix reuse.         *)

\* bytes.Index: the index of the first instance of sep in s, or -1.
Index(s, sep) ==
    IF \E i \in 0..(Len(s) - Len(sep)) : SubSeq(s, i + 1, i + Len(sep)) = sep
    THEN CHOOSE i \in 0..(Len(s) - Len(sep)) :
             /\ SubSeq(s, i + 1, i + Len(sep)) = sep
             /\ \A j \in 0..(i - 1) : SubSeq(s, j + 1, j + Len(sep)) # sep
    ELSE -1

\* The conversion uint8(n).
uint8(n) == n % 256

\* appendDesignation that appends whether or not the designation is there.
appendDesignationAlways(pool, desig) ==
    [designations |-> pool \o Append(desig, 0), idx |-> uint8(Len(pool))]

\* What appendDesignation returns: the pool and the index of desig in it.
appendDesignation(pool, desig) ==
    IF Index(pool, Append(desig, 0)) # -1
    THEN [designations |-> pool, idx |-> uint8(Index(pool, Append(desig, 0)))]
    ELSE [designations |-> pool \o Append(desig, 0), idx |-> uint8(Len(pool))]

MaxAdds == 4

\* The designations handed to appendDesignation: "LMT", "HST", "HDT", "ST",
\* "T" and "DT".
Desigs ==
    {<<76, 77, 84>>, <<72, 83, 84>>, <<72, 68, 84>>, <<83, 84>>, <<84>>,
     <<68, 84>>}

\* One call of appendDesignation on the pool.
AppendDesignation ==
    \E desig \in Desigs :
        /\ Len(added) < MaxAdds
        /\ designations' = appendDesignation(designations, desig).designations
        /\ idxs' = Append(idxs, appendDesignation(designations, desig).idx)
        /\ added' = Append(added, desig)

InitDesig == CompileIdle /\ TzifIdle /\ DesigIdle /\ ParseIdle /\ CalIdle

NextDesig == AppendDesignation /\ UNCHANGED notDesig

SpecDesig == InitDesig /\ [][NextDesig]_vars

-----------------------------------------------------------------------------
(* Properties of appendDesignation, under SpecDesig.                       *)

\* The indices (from zero) at which s lies in pool as the end of a
\* designation, up to the NUL that ends it.
SuffixIndices(pool, s) ==
    {e - Len(s) - 1 :
        e \in {e \in (Len(s) + 1)..Len(pool) :
                  pool[e] = 0 /\ SubSeq(pool, e - Len(s), e - 1) = s}}

\* C14: a designation that ends a designation of the pool gets the index of
\* that suffix and leaves the pool as it is; any other is appended with a NUL
\* and gets the old length of the pool.  "LMT", "HST", "HDT" get 0, 4 and 8
\* in a pool of 12 bytes, and "ST" then gets 5 in the same pool.
C14_SuffixReuse ==
    [][/\ LET s == added'[Len(added')]
              idx == idxs'[Len(idxs')]
          IN  IF SuffixIndices(designations, s) # {}
              THEN /\ idx \in SuffixIndices(designations, s)
                   /\ designations' = designations
              ELSE /\ idx = Len(designations)
                   /\ designations' = designations \o s \o <<0>>
       /\ added' = <<<<76, 77, 84>>, <<72, 83, 84>>, <<72, 68, 84>>>>
              => idxs' = <<0, 4, 8>> /\ Len(designations') = 12
       /\ added' = <<<<76, 77, 84>>, <<72, 83, 84>>, <<72, 68, 84>>, <<83, 84>>>>
              => idxs'[4] = 5 /\ Len(designations') = 12]_vars

\* "ST" was added after "LMT", "HST" and "HDT".
C14_Witness ==
    added = <<<<76, 77, 84>>, <<72, 83, 84>>, <<72, 68, 84>>, <<83, 84>>>>

-----------------------------------------------------------------------------
(* tzdata: the parser.  A string is the sequence of its characters, each a *)
(* string of length one.  The helpers are those of Go's strings and       *)
(* strconv packages, on the ASCII characters of the modelled files.        *)

Chars(str) == [i \in 1..Len(str) |-> SubSeq(str, i, i)]

\* The white space of unicode.IsSpace among the characters modelled.
WhiteSpace == {" ", "\t", "\r", "\f"}

Digits == Chars("0123456789")

HasPrefix(s, prefix) ==
    Len(s) >= Len(prefix) /\ SubSeq(s, 1, Len(prefix)) = prefix

HasSuffix(s, suffix) ==
    Len(s) >= Len(suffix)
    /\ SubSeq(s, Len(s) - Len(suffix) + 1, Len(s)) = suffix

\* strings.ToLower.
ToLower(s) ==
    [i \in 1..Len(s) |->
        IF \E k \in 1..26 : Chars("ABCDEFGHIJKLMNOPQRSTUVWXYZ")[k] = s[i]
        THEN Chars("abcdefghijklmnopqrstuvwxyz")[
                 CHOOSE k \in 1..26 :
                     Chars("ABCDEFGHIJKLMNOPQRSTUVWXYZ")[k] = s[i]]
        ELSE s[i]]

\* strings.TrimSpace.
RECURSIVE TrimSpace(_)
TrimSpace(s) ==
    IF s = <<>> THEN s
    ELSE IF s[1] \in WhiteSpace THEN TrimSpace(Tail(s))
    ELSE IF s[Len(s)] \in WhiteSpace THEN TrimSpace(SubSeq(s, 1, Len(s) - 1))
    ELSE s

\* strings.Fields: the maximal runs of characters that are not white space.
\* fld is the field begun, out the fields completed.
RECURSIVE FieldsFrom(_, _, _)
FieldsFrom(s, fld, out) ==
    IF s = <<>> THEN IF fld = <<>> THEN out ELSE Append(out, fld)
    ELSE IF s[1] \in WhiteSpace
         THEN FieldsFrom(Tail(s), <<>>,
                         IF fld = <<>> THEN out ELSE Append(out, fld))
         ELSE FieldsFrom(Tail(s), Append(fld, s[1]), out)

Fields(s) == FieldsFrom(s, <<>>, <<>>)

\* strings.Split on a separator that is not empty.
RECURSIVE SplitFrom(_, _, _, _)
SplitFrom(s, sep, fld, out) ==
    IF s = <<>> THEN Append(out, fld)
    ELSE IF HasPrefix(s, sep)
         THEN SplitFrom(SubSeq(s, Len(sep) + 1, Len(s)), sep, <<>>,
                        Append(out, fld))
         ELSE SplitFrom(Tail(s), sep, Append(fld, s[1]), out)

Split(s, sep) == SplitFrom(s, sep, <<>>, <<>>)

\* strings.Join.
RECURSIVE Join(_, _)
Join(elems, sep) ==
    IF elems = <<>> THEN <<>>
    ELSE IF Len(elems) = 1 THEN elems[1]
    ELSE elems[1] \o sep \o Join(Tail(elems), sep)

\* The number the decimal digits ds stand for.
RECURSIVE DigitsValue(_, _)
DigitsValue(ds, acc) ==
    IF ds = <<>> THEN acc
    ELSE DigitsValue(Tail(ds),
                     10 * acc + (CHOOSE d \in 0..9 : Digits[d + 1] = ds[1]))

\* strconv.Atoi: an optional sign and at least one digit, nothing else.
AtoiDigits(s) == IF s # <<>> /\ s[1] \in {"+", "-"} THEN Tail(s) ELSE s

Atoi(s) ==
    IF AtoiDigits(s) = <<>>
       \/ \E i \in 1..Len(AtoiDigits(s)) :
              \A d \in 1..10 : Digits[d] # AtoiDigits(s)[i]
    THEN [err |-> "invalid syntax", v |-> 0]
    ELSE [err |-> "",
          v |-> IF s[1] = "-" THEN -DigitsValue(AtoiDigits(s), 0)
                ELSE DigitsValue(AtoiDigits(s), 0)]

isAbbrev(s, long, min) == HasPrefix(s, min) /\ HasPrefix(long, s)

\* What a field parser returns: its error ("" for nil, "panic" for a run
\* time panic) and its value.
Parsed(v) == [err |-> "", v |-> v]
Failed(err, zero) == [err |-> err, v |-> zero]

\* unquote: s without the double quotes around it.  For s of one double
\* quote the slice s[1:0] is out of range and the function panics.
unquote(s) ==
    IF s[1] = "\"" /\ s[Len(s)] = "\""
    THEN IF Len(s) = 1 THEN Failed("panic", s)
         ELSE Parsed(SubSeq(s, 2, Len(s) - 1))
    ELSE Parsed(s)

wasQuoted(s) == s[1] = "\"" /\ s[Len(s)] = "\""

\* The characters of specialChars; its grave accent, which no line of the
\* modelled files holds, cannot be written in a string here.
SpecialChars ==
    {"!", "$", "%", "&", "'", "(", ")", "*", ",", "/", ":", ";", "<", "=",
     ">", "?", "@", "[", "\\", "]", "^", "{", "|", "}", "~"}

containsSpecialChar(s) == \E i \in 1..Len(s) : s[i] \in SpecialChars

parseRuleNAME(s) ==
    IF Len(s) = 0 THEN Failed("empty name", <<>>)
    ELSE IF \E d \in 1..10 : Digits[d] = s[1]
    THEN Failed("name starts with a digit", <<>>)
    ELSE IF s[1] \in {"-", "+"} THEN Failed("name starts with a sign", <<>>)
    ELSE IF unquote(s).err # "" THEN unquote(s)
    ELSE IF ~wasQuoted(s) /\ containsSpecialChar(s)
    THEN Failed("name contains special character", <<>>)
    ELSE unquote(s)

\* MinYear = math.MinInt, as MaxYear in the integers of the model.
MinYear == -MaxYear

parseRuleFROM(s) ==
    IF isAbbrev(s, Chars("minimum"), Chars("mi")) THEN Parsed(MinYear)
    ELSE IF isAbbrev(s, Chars("maximum"), Chars("ma")) THEN Parsed(MaxYear)
    ELSE Atoi(s)

parseRuleTO(s, from) ==
    IF isAbbrev(s, Chars("minimum"), Chars("mi")) THEN Parsed(MinYear)
    ELSE IF isAbbrev(s, Chars("maximum"), Chars("ma")) THEN Parsed(MaxYear)
    ELSE IF isAbbrev(s, Chars("only"), Chars("o")) THEN Parsed(from)
    ELSE Atoi(s)

MonthNames ==
    <<Chars("january"), Chars("february"), Chars("march"), Chars("april"),
      Chars("may"), Chars("june"), Chars("july"), Chars("august"),
      Chars("september"), Chars("october"), Chars("november"),
      Chars("december")>>

\* l is an abbreviation of the k-th name, of at least min characters.
AbbrevOf(l, names, k, min) == isAbbrev(l, names[k], SubSeq(names[k], 1, min))

parseMonth(s) ==
    IF Len(s) < 3 THEN Failed("too short", 0)
    ELSE IF \E k \in 1..12 : AbbrevOf(ToLower(s), MonthNames, k, 3)
    THEN Parsed(CHOOSE k \in 1..12 : AbbrevOf(ToLower(s), MonthNames, k, 3))
    ELSE Failed("invalid", 0)

parseRuleIN(s) == parseMonth(s)

WeekdayNames ==
    <<Chars("sunday"), Chars("monday"), Chars("tuesday"), Chars("wednesday"),
      Chars("thursday"), Chars("friday"), Chars("saturday")>>

\* The least numbers of characters of an abbreviation of a weekday.
WeekdayMin == <<2, 1, 2, 1, 2, 1, 2>>

\* parseWeekday: the checks run from Sunday on, the first that holds wins.
parseWeekday(s) ==
    IF \E k \in 1..7 : AbbrevOf(ToLower(s), WeekdayNames, k, WeekdayMin[k])
    THEN Parsed((CHOOSE k \in 1..7 :
                    /\ AbbrevOf(ToLower(s), WeekdayNames, k, WeekdayMin[k])
                    /\ \A j \in 1..(k - 1) :
                           ~AbbrevOf(ToLower(s), WeekdayNames, j,
                                     WeekdayMin[j])) - 1)
    ELSE Failed("invalid weekday", 0)

NoDay == [Form |-> DayFormNum, Num |-> 0, Day |-> 0]

\* The comparison forms of parseRuleON, on the two parts around the sign.
parseRuleONParts(form, parts) ==
    IF Len(parts) # 2 \/ Len(parts[1]) = 0 \/ Len(parts[2]) = 0
    THEN Failed("expected weekday<=dayofmonth or weekday>=dayofmonth", NoDay)
    ELSE IF parseWeekday(parts[1]).err # ""
    THEN Failed("left part of comparison", NoDay)
    ELSE IF Atoi(parts[2]).err # ""
    THEN Failed("right part of comparison", NoDay)
    ELSE Parsed([Form |-> form, Num |-> Atoi(parts[2]).v,
                 Day |-> parseWeekday(parts[1]).v])

parseRuleON(s) ==
    IF Atoi(s).err = ""
    THEN Parsed([Form |-> DayFormNum, Num |-> Atoi(s).v, Day |-> 0])
    ELSE IF HasPrefix(s, Chars("last"))
    THEN IF parseWeekday(SubSeq(s, 5, Len(s))).err # ""
         THEN Failed("invalid weekday", NoDay)
         ELSE Parsed([Form |-> DayFormLast, Num |-> 0,
                      Day |-> parseWeekday(SubSeq(s, 5, Len(s))).v])
    ELSE IF \E i \in 1..Len(s) : s[i] = "="
    THEN IF Len(Split(s, Chars("<="))) = 2
         THEN parseRuleONParts(DayFormBefore, Split(s, Chars("<=")))
         ELSE parseRuleONParts(DayFormAfter, Split(s, Chars(">=")))
    ELSE Failed("invalid", NoDay)

\* parseTimeOfDay on the parts around the colons and the parts of the
\* seconds around the dot.  The duration is counted in whole seconds, as
\* the offsets of the lines are: of a fraction, which is below one second,
\* only the check of its digits is kept.
FractionalStr(f) ==
    IF Len(f) > 3 THEN SubSeq(f, 1, 3)
    ELSE f \o SubSeq(Chars("000"), 1, 3 - Len(f))

parseTimeOfDayParts(parts, secondParts) ==
    IF Atoi(parts[1]).err # "" THEN Failed("invalid hour format", 0)
    ELSE IF Len(parts) > 1 /\ Atoi(parts[2]).err # ""
    THEN Failed("invalid minute format", 0)
    ELSE IF Len(parts) > 2 /\ Atoi(secondParts[1]).err # ""
    THEN Failed("invalid second format", 0)
    ELSE IF Len(parts) > 2 /\ Len(secondParts) > 1
            /\ Atoi(FractionalStr(secondParts[2])).err # ""
    THEN Failed("invalid fractional second format", 0)
    ELSE Parsed(Atoi(parts[1]).v * secondsPerHour
                + (IF Len(parts) > 1 THEN Atoi(parts[2]).v * secondsPerMinute
                   ELSE 0)
                + (IF Len(parts) > 2 THEN Atoi(secondParts[1]).v ELSE 0))

parseTimeOfDayUnsigned(parts) ==
    parseTimeOfDayParts(parts, IF Len(parts) > 2
                               THEN Split(parts[3], Chars("."))
                               ELSE <<>>)

parseTimeOfDay(s) ==
    IF s = Chars("-") THEN Parsed(0)
    ELSE IF HasPrefix(s, Chars("-"))
    THEN [err |-> parseTimeOfDayUnsigned(Split(Tail(s), Chars(":"))).err,
          v |-> -parseTimeOfDayUnsigned(Split(Tail(s), Chars(":"))).v]
    ELSE parseTimeOfDayUnsigned(Split(s, Chars(":")))

\* parseTimeOfDayWithSuffix: the first suffix of the list that ends timeStr
\* is cut off; v is the duration d and the suffix ("" for none).
parseTimeOfDayWithSuffix(timeStr, suffixes) ==
    IF \E k \in 1..Len(suffixes) : HasSuffix(timeStr, Chars(suffixes[k]))
    THEN [err |-> parseTimeOfDay(SubSeq(timeStr, 1, Len(timeStr) - 1)).err,
          d |-> parseTimeOfDay(SubSeq(timeStr, 1, Len(timeStr) - 1)).v,
          suffix |-> IF parseTimeOfDay(SubSeq(timeStr, 1,
                                              Len(timeStr) - 1)).err = ""
                     THEN timeStr[Len(timeStr)] ELSE ""]
    ELSE [err |-> parseTimeOfDay(timeStr).err,
          d |-> parseTimeOfDay(timeStr).v, suffix |-> ""]

TimeOf(p, form) ==
    IF p.err # "" THEN Failed(p.err, NoTime)
    ELSE Parsed([TimeOfDay |-> p.d, Form |-> form])

parseRuleAT(s) ==
    TimeOf(parseTimeOfDayWithSuffix(s, <<"w", "s", "u", "g", "z">>),
           CASE parseTimeOfDayWithSuffix(s, <<"w", "s", "u", "g", "z">>).suffix
                    = "s" -> StandardTime
             [] parseTimeOfDayWithSuffix(s, <<"w", "s", "u", "g", "z">>).suffix
                    \in {"u", "g", "z"} -> UniversalTime
             [] OTHER -> WallClock)

parseRuleSAVE(s) ==
    TimeOf(parseTimeOfDayWithSuffix(s, <<"s", "d">>),
           CASE parseTimeOfDayWithSuffix(s, <<"s", "d">>).suffix = "s"
                    -> StandardTime
             [] parseTimeOfDayWithSuffix(s, <<"s", "d">>).suffix = "d"
                    -> DaylightSavingTime
             [] OTHER -> IF parseTimeOfDayWithSuffix(s, <<"s", "d">>).d = 0
                         THEN StandardTime ELSE DaylightSavingTime)

parseRuleLETTERS(s) ==
    IF Len(s) = 0 THEN Failed("empty letter", <<>>)
    ELSE IF unquote(s).err # "" THEN unquote(s)
    ELSE IF unquote(s).v = Chars("-") THEN Parsed(<<>>)
    ELSE unquote(s)

parseZoneNAME(s) ==
    IF Len(s) = 0 THEN Failed("empty name", <<>>)
    ELSE IF \E i \in 1..Len(s) : s[i] = "." THEN Failed("name contains a dot", <<>>)
    ELSE Parsed(s)

parseZoneSTDOFF(s) == parseTimeOfDay(s)

parseZoneRULES(s) ==
    IF s = Chars("-")
    THEN Parsed([Form |-> ZoneRulesStandard, Name |-> <<>>, Time |-> NoTime])
    ELSE IF parseRuleSAVE(s).err = ""
    THEN Parsed([Form |-> ZoneRulesTime, Name |-> <<>>,
                 Time |-> parseRuleSAVE(s).v])
    ELSE Parsed([Form |-> ZoneRulesName, Name |-> s, Time |-> NoTime])

parseZoneFORMAT(s) ==
    IF Len(s) = 0 THEN Failed("empty format", <<>>) ELSE unquote(s)

\* UntilPartsMask: a mask is the set of its bits, each bit the name of its
\* part; p|parts is the union and p&parts the intersection.
untilYearOnly == {"year"}
untilMonthOnly == {"month"}
untilDayOnly == {"day"}
untilTimeOnly == {"time"}

UntilYear == untilYearOnly
UntilMonth == untilYearOnly \cup untilMonthOnly
UntilDay == untilYearOnly \cup untilMonthOnly \cup untilDayOnly
UntilTime ==
    untilYearOnly \cup untilMonthOnly \cup untilDayOnly \cup untilTimeOnly

\* Has: p&parts != 0.
Has(p, parts) == p \cap parts # {}

\* Set: p | parts.
Set(p, parts) == p \cup parts

UntilOnlyBits == <<untilYearOnly, untilMonthOnly, untilDayOnly, untilTimeOnly>>

\* As PartsOfFirst, but the month never sets its bit.
PartsOfFirstNoMonth(n) ==
    UNION {UntilOnlyBits[k] : k \in 1..n} \ untilMonthOnly

\* The Parts of parseZoneUNTIL after its first n fields are parsed: the
\* results of u.Parts.Set, one after the other.
RECURSIVE PartsOfFirst(_)
PartsOfFirst(n) ==
    IF n = 0 THEN {} ELSE Set(PartsOfFirst(n - 1), UntilOnlyBits[n])

\* The k-th field of the UNTIL column under its parser.
parseUntilPart(parts, k) ==
    CASE k = 1 -> Atoi(parts[1])
      [] k = 2 -> parseRuleIN(parts[2])
      [] k = 3 -> parseRuleON(parts[3])
      [] OTHER -> parseRuleAT(parts[4])

UntilPartNames == <<"year", "month", "day", "time">>

\* The first field of the column that its parser rejects, 0 for none.
UntilFirstErr(parts) ==
    IF \E k \in 1..Len(parts) : parseUntilPart(parts, k).err # ""
    THEN CHOOSE k \in 1..Len(parts) :
             /\ parseUntilPart(parts, k).err # ""
             /\ \A j \in 1..(k - 1) : parseUntilPart(parts, j).err = ""
    ELSE 0

\* The Until after the first n fields of parts are parsed and stored.
UntilOfFirst(parts, n, defined) ==
    [Defined |-> defined,
     Parts |-> PartsOfFirst(n),
     Year |-> IF n >= 1 THEN parseUntilPart(parts, 1).v ELSE 0,
     Month |-> IF n >= 2 THEN parseUntilPart(parts, 2).v ELSE 0,
     Day |-> IF n >= 3 THEN parseUntilPart(parts, 3).v ELSE NoDay,
     Time |-> IF n >= 4 THEN parseUntilPart(parts, 4).v ELSE NoTime]

parseZoneUNTILParts(parts, bad) ==
    IF Len(parts) > 4 THEN Failed("too many fields", UntilOfFirst(parts, 0, FALSE))
    ELSE IF bad # 0
    THEN Failed(UntilPartNames[bad], UntilOfFirst(parts, bad - 1, FALSE))
    ELSE Parsed(UntilOfFirst(parts, Len(parts), TRUE))

parseZoneUNTIL(s) ==
    IF Len(s) = 0 THEN Parsed(UntilOfFirst(<<>>, 0, FALSE))
    ELSE parseZoneUNTILParts(Fields(s),
                             IF Len(Fields(s)) > 4 THEN 0
                             ELSE UntilFirstErr(Fields(s)))

\* What a line parser returns: the line v, the entries of the joined error
\* errs (none for nil), and whether the call panics instead of returning.
ZeroLine == <<>>
LineFailed(err) == [v |-> ZeroLine, errs |-> <<err>>, panics |-> FALSE]

\* errors.Join over the columns of a line: the entries of the columns from
\* the k-th on whose parsers fail, in the order of the columns.
RECURSIVE FieldErrs(_, _, _)
FieldErrs(cols, res, k) ==
    IF k > Len(res) THEN <<>>
    ELSE (IF res[k].err # "" THEN <<cols[k]>> ELSE <<>>)
         \o FieldErrs(cols, res, k + 1)

LineOf(v, cols, res) ==
    IF \E k \in 1..Len(res) : res[k].err = "panic"
    THEN [v |-> ZeroLine, errs |-> <<>>, panics |-> TRUE]
    ELSE [v |-> v, errs |-> FieldErrs(cols, res, 1), panics |-> FALSE]

ZoneCols == <<"NAME", "STDOFF", "RULES", "FORMAT", "UNTIL">>

\* The zone line of the results res of the parsers of its five columns.
zoneLineOf(continuation, res) ==
    LineOf([Continuation |-> continuation, Name |-> res[1].v,
            Offset |-> res[2].v, Rules |-> res[3].v, Format |-> res[4].v,
            Until |-> res[5].v],
           ZoneCols, res)

\* The results of STDOFF, RULES, FORMAT and UNTIL, the columns of f from
\* the k-th on.
zoneColumns(f, k) ==
    <<parseZoneSTDOFF(f[k]), parseZoneRULES(f[k + 1]),
      parseZoneFORMAT(f[k + 2]),
      IF Len(f) > k + 2
      THEN parseZoneUNTIL(Join(SubSeq(f, k + 3, Len(f)), Chars(" ")))
      ELSE Parsed(NoUntil)>>

parseZoneLine(flds) ==
    IF Len(flds) < 5 THEN LineFailed("expected at least 5 flds")
    ELSE IF Len(flds) > 9 THEN LineFailed("expected at most 9 flds")
    ELSE IF flds[1] # Chars("Zone") THEN LineFailed("expected 'Zone'")
    ELSE zoneLineOf(FALSE, <<parseZoneNAME(flds[2])>>
                           \o zoneColumns(flds, 3))

parseZoneContinuationLine(flds) ==
    IF Len(flds) < 3 THEN LineFailed("expected at least 3 flds")
    ELSE IF Len(flds) > 7 THEN LineFailed("expected at most 7 flds")
    ELSE zoneLineOf(TRUE, <<Parsed(<<>>)>> \o zoneColumns(flds, 1))

RuleCols == <<"NAME", "FROM", "TO", "IN", "ON", "AT", "SAVE", "LETTER/S">>

ruleLineOf(res) ==
    LineOf([Name |-> res[1].v, From |-> res[2].v, To |-> res[3].v,
            In |-> res[4].v, On |-> res[5].v, At |-> res[6].v,
            Save |-> res[7].v, Letter |-> res[8].v],
           RuleCols, res)

parseRuleLine(flds) ==
    IF Len(flds) # 10 THEN LineFailed("expected 10 flds")
    ELSE IF flds[1] # Chars("Rule") THEN LineFailed("expected 'Rule'")
    ELSE ruleLineOf(<<parseRuleNAME(flds[2]), parseRuleFROM(flds[3]),
                      parseRuleTO(flds[4], parseRuleFROM(flds[3]).v),
                      parseRuleIN(flds[6]), parseRuleON(flds[7]),
                      parseRuleAT(flds[8]), parseRuleSAVE(flds[9]),
                      parseRuleLETTERS(flds[10])>>)

parseLinkLine(parts) ==
    IF Len(parts) # 3 THEN LineFailed("expected 3 flds")
    ELSE IF parts[1] # Chars("Link") THEN LineFailed("expected 'Link'")
    ELSE [v |-> [From |-> parts[2], To |-> parts[3]], errs |-> <<>>,
          panics |-> FALSE]

NoHMS == [Hours |-> 0, Minutes |-> 0, Seconds |-> 0]

parseHMSParts(parts) ==
    IF Len(parts) # 3 THEN Failed("expected 3 parts", NoHMS)
    ELSE IF Atoi(parts[1]).err # "" THEN Failed("hours", NoHMS)
    ELSE IF Atoi(parts[2]).err # "" THEN Failed("minutes", NoHMS)
    ELSE IF Atoi(parts[3]).err # "" THEN Failed("seconds", NoHMS)
    ELSE Parsed([Hours |-> Atoi(parts[1]).v, Minutes |-> Atoi(parts[2]).v,
                 Seconds |-> Atoi(parts[3]).v])

parseHMS(s) == parseHMSParts(Split(s, Chars(":")))

LeapAdded == "+"
LeapSkipped == "-"
StationaryLeapTime == "Stationary"
RollingLeapTime == "Rolling"

parseLeapCORR(s) ==
    IF s = Chars("+") THEN Parsed(LeapAdded)
    ELSE IF s = Chars("-") THEN Parsed(LeapSkipped)
    ELSE Failed("invalid leap correction", "")

parseLeapRS(s) ==
    IF isAbbrev(ToLower(s), Chars("rolling"), Chars("r"))
    THEN Parsed(RollingLeapTime)
    ELSE IF isAbbrev(ToLower(s), Chars("stationary"), Chars("s"))
    THEN Parsed(StationaryLeapTime)
    ELSE Failed("invalid leap mode", StationaryLeapTime)

LeapCols == <<"YEAR", "MONTH", "DAY", "HH:MM:SS", "CORR", "R/S">>

leapLineOf(res) ==
    LineOf([Year |-> res[1].v, Month |-> res[2].v, Day |-> res[3].v,
            Time |-> res[4].v, Corr |-> res[5].v, Mode |-> res[6].v],
           LeapCols, res)

parseLeapLine(flds) ==
    IF Len(flds) # 7 THEN LineFailed("expected 7 flds")
    ELSE IF flds[1] # Chars("Leap") THEN LineFailed("expected 'Leap'")
    ELSE leapLineOf(<<Atoi(flds[2]), parseMonth(flds[3]),
                      Atoi(flds[4]), parseHMS(flds[5]),
                      parseLeapCORR(flds[6]), parseLeapRS(flds[7])>>)

expiresLineOf(res) ==
    LineOf([Year |-> res[1].v, Month |-> res[2].v, Day |-> res[3].v,
            Time |-> res[4].v],
           LeapCols, res)

parseExpiresLine(flds) ==
    IF Len(flds) # 5 THEN LineFailed("expected 5 flds")
    ELSE IF flds[1] # Chars("Expires")
    THEN LineFailed("expected 'Expires'")
    ELSE expiresLineOf(<<Atoi(flds[2]), parseMonth(flds[3]),
                         Atoi(flds[4]), parseHMS(flds[5])>>)

\* splitLine: the fields of the line ln, <<>> for nil (a comment or an
\* empty line).  The line is cut at its first '#', wherever that stands.
splitLine(ln) ==
    Fields(TrimSpace(IF Index(ln, <<"#">>) # -1
                     THEN SubSeq(ln, 1, Index(ln, <<"#">>))
                     ELSE ln))

-----------------------------------------------------------------------------
(* tzdata.Parse: the scanner hands over one line after the other; a line   *)
(* is split, dispatched to its parser and its result appended, and the     *)
(* first line in error ends the run.                                       *)

\* The number of lines the reader holds at most.
MaxText == 3

\* The lines the reader may hold.
TextLines ==
    {"Zone A 1:00 - LMT 1900",
     "Zone B 2:00 R B%sT",
     "Zone C 1:00 - LMT 1900 Mar 5",
     "3:00 - CST 1950 Mar lastSun 2:00",
     "4:00 1:00 DST",
     "5:00 - EST 1960 Jun",
     "Link A L",
     "Rule R 1990 only - Oct Sun>=1 2:00u 1:00 D",
     "Leap 1972 Jun 30 23:59:60 + S",
     "Expires 2025 Dec 28 00:00:00",
     "# comment",
     " Zone D 1:00 - LMT",
     "Zones E 1:00 - LMT",
     "Zone \"F G\" 1:00 - LMT",
     "Zone H 1:00 - \"#\"",
     "Zone A.B x:00 - LMT 19x2 Foo",
     "Zone A.B 1:00 - \"",
     "Rule 1R 19x0 max - Ocx Sun>1 2:0x 1:00 -",
     "Bogus line"}

NoLineRet == [v |-> ZeroLine, errs |-> <<>>, panics |-> FALSE]

\* The branch of the loop body of Parse that the line takes.
Dispatch(ln, expected) ==
    IF HasPrefix(ln, Chars("Zone")) \/ expected
    THEN IF expected THEN "Continuation" ELSE "Zone"
    ELSE IF HasPrefix(ln, Chars("Rule")) THEN "Rule"
    ELSE IF HasPrefix(ln, Chars("Link")) THEN "Link"
    ELSE IF HasPrefix(ln, Chars("Leap")) THEN "Leap"
    ELSE IF HasPrefix(ln, Chars("Expires")) THEN "Expires"
    ELSE "unexpected"

\* The call of the line parser of the branch.
ParseBranch(kind, f) ==
    CASE kind = "Continuation" -> parseZoneContinuationLine(f)
      [] kind = "Zone" -> parseZoneLine(f)
      [] kind = "Rule" -> parseRuleLine(f)
      [] kind = "Link" -> parseLinkLine(f)
      [] kind = "Leap" -> parseLeapLine(f)
      [] kind = "Expires" -> parseExpiresLine(f)
      [] OTHER -> LineFailed("unexpected line")

\* result with the line v appended to the lines of its kind.
AppendLine(res, kind, v) ==
    CASE kind \in {"Continuation", "Zone"} ->
             [res EXCEPT !.ZoneLines = Append(@, v)]
      [] kind = "Rule" -> [res EXCEPT !.RuleLines = Append(@, v)]
      [] kind = "Link" -> [res EXCEPT !.LinkLines = Append(@, v)]
      [] kind = "Leap" -> [res EXCEPT !.LeapLines = Append(@, v)]
      [] OTHER -> [res EXCEPT !.ExpiresLines = Append(@, v)]

\* The rest of the loop body for the fields f, the branch kind and the
\* result r of its line parser.
ParseStep(f, kind, r) ==
    /\ fields' = f
    /\ IF f = <<>>
       THEN /\ branch' = "skip"
            /\ lineRet' = NoLineRet
            /\ UNCHANGED <<continuationExpected, parsed, parseRet>>
       ELSE /\ branch' = kind
            /\ lineRet' = r
            /\ IF r.panics
               THEN /\ parseRet' = [done |-> TRUE, err |-> <<>>,
                                    panics |-> TRUE]
                    /\ UNCHANGED <<continuationExpected, parsed>>
               ELSE IF r.errs # <<>>
               THEN /\ parseRet' = [done |-> TRUE,
                                    err |-> <<kind, lineNumber + 1>>,
                                    panics |-> FALSE]
                    /\ UNCHANGED <<continuationExpected, parsed>>
               ELSE /\ parsed' = AppendLine(parsed, kind, r.v)
                    /\ continuationExpected' =
                           IF kind \in {"Continuation", "Zone"}
                           THEN r.v.Until.Defined
                           ELSE continuationExpected
                    /\ UNCHANGED parseRet

\* One turn of the loop of Parse: the scanner has a line.
ParseLine ==
    /\ ~parseRet.done
    /\ lineNumber < MaxText
    /\ \E l \in TextLines :
           /\ line' = l
           /\ lineNumber' = lineNumber + 1
           /\ ParseStep(splitLine(Chars(l)),
                        Dispatch(Chars(l), continuationExpected),
                        ParseBranch(Dispatch(Chars(l), continuationExpected),
                                    splitLine(Chars(l))))
    /\ UNCHANGED hasRet

\* The scanner is at the end of the text: Parse returns result and nil.
ParseReturn ==
    /\ ~parseRet.done
    /\ parseRet' = [done |-> TRUE, err |-> <<>>, panics |-> FALSE]
    /\ UNCHANGED <<line, lineNumber, continuationExpected, parsed, fields,
                   branch, lineRet, hasRet>>

\* The masks a caller hands to Has.
HasMasks ==
    {untilYearOnly, untilMonthOnly, untilDayOnly, untilTimeOnly,
     UntilMonth, UntilDay, UntilTime}

\* A caller asks the Parts of the UNTIL of a parsed zone line for parts.
UntilHas ==
    /\ parseRet.done
    /\ ~hasRet.called
    /\ \E i \in 1..Len(parsed.ZoneLines) :
           \E parts \in HasMasks :
               hasRet' = [called |-> TRUE,
                          p |-> parsed.ZoneLines[i].Until.Parts,
                          parts |-> parts,
                          ret |-> Has(parsed.ZoneLines[i].Until.Parts, parts)]
    /\ UNCHANGED <<line, lineNumber, continuationExpected, parsed, fields,
                   branch, lineRet, parseRet>>

InitParse == CompileIdle /\ TzifIdle /\ DesigIdle /\ ParseIdle /\ CalIdle

NextParse ==
    \/ ParseLine /\ UNCHANGED notParse
    \/ ParseReturn /\ UNCHANGED notParse
    \/ UntilHas /\ UNCHANGED notParse

SpecParse == InitParse /\ [][NextParse]_vars

-----------------------------------------------------------------------------
(* Properties of Parse and its line parsers, under SpecParse.               *)

Keywords == {"Rule", "Zone", "Link", "Leap", "Expires"}

\* A step of the loop that dispatched a line to a branch.
DispatchStep == lineNumber' = lineNumber + 1 /\ fields' # <<>>

\* C15: a line is treated as a zone continuation if and only if its first
\* field is no keyword and the data line before it was a zone line or a
\* continuation with its UNTIL defined; a keyword line after such a line is
\* parsed as the line its keyword names.
C15_ContinuationIffNonKeyword ==
    [][DispatchStep =>
          /\ branch' = "Continuation"
                 <=> /\ continuationExpected
                     /\ \A k \in Keywords : fields'[1] # Chars(k)
          /\ \A k \in Keywords :
                 (continuationExpected /\ fields'[1] = Chars(k))
                     => branch' = k]_vars

\* C16: a line that is no continuation is parsed as the line of a keyword
\* exactly when its first field is that keyword, whatever white space leads
\* the line; a first field that only starts with a keyword does not count.
C16_FirstFieldDiscriminates ==
    branch \notin {"none", "skip", "Continuation"}
        => \A k \in Keywords : branch = k <=> fields[1] = Chars(k)

\* The fields of a line whose double quotes are respected: white space in a
\* quoted run does not end the field, a '#' in a quoted run starts no
\* comment, and the first '#' outside of quotes ends the line.
RECURSIVE QuotedFieldsFrom(_, _, _, _)
QuotedFieldsFrom(s, quoted, fld, out) ==
    IF s = <<>> \/ (s[1] = "#" /\ ~quoted)
    THEN IF fld = <<>> THEN out ELSE Append(out, fld)
    ELSE IF s[1] \in WhiteSpace /\ ~quoted
    THEN QuotedFieldsFrom(Tail(s), quoted, <<>>,
                          IF fld = <<>> THEN out ELSE Append(out, fld))
    ELSE QuotedFieldsFrom(Tail(s), IF s[1] = "\"" THEN ~quoted ELSE quoted,
                          Append(fld, s[1]), out)

QuotedFields(s) == QuotedFieldsFrom(s, FALSE, <<>>, <<>>)

\* C17: splitLine respects double quotes: the fields of a line are those
\* of QuotedFields.
C17_SplitLineRespectsQuotes ==
    branch # "none" => fields = QuotedFields(Chars(line))

\* The number of fields of the UNTIL column of the line dispatched last.
UntilFieldCount == Len(fields) - (IF branch = "Zone" THEN 5 ELSE 3)

\* The line parsed last is a zone line or a continuation whose UNTIL was
\* parsed without error and is defined.
UntilParsed ==
    /\ branch \in {"Zone", "Continuation"}
    /\ ~lineRet.panics
    /\ lineRet.errs = <<>>
    /\ lineRet.v.Until.Defined

\* C18: the Parts of an UNTIL that parseZoneUNTIL returned without error
\* and defined are one of UntilYear, UntilMonth, UntilDay and UntilTime,
\* and the bit of the k-th field is set if and only if the column had a
\* k-th field.
C18_PartsMonotonePrefix ==
    UntilParsed
        => /\ lineRet.v.Until.Parts
                  \in {UntilYear, UntilMonth, UntilDay, UntilTime}
           /\ \A k \in 1..4 :
                  UntilOnlyBits[k] \subseteq lineRet.v.Until.Parts
                      <=> k <= UntilFieldCount

C18_Witness ==
    /\ UntilParsed
    /\ branch = "Continuation"
    /\ lineRet.v.Until.Parts = UntilTime
    /\ \E i \in 1..Len(parsed.ZoneLines) :
           parsed.ZoneLines[i].Until.Parts = UntilDay

\* The line dispatched last went to parseRuleLine, parseZoneLine or
\* parseZoneContinuationLine with a count of fields it accepts.
FieldCountAccepted ==
    \/ branch = "Rule" /\ Len(fields) = 10 /\ fields[1] = Chars("Rule")
    \/ branch = "Zone" /\ Len(fields) \in 5..9 /\ fields[1] = Chars("Zone")
    \/ branch = "Continuation" /\ Len(fields) \in 3..7

\* The names of the columns of that line and, column by column, what the
\* parser of the column makes of its field.
ColumnNames ==
    CASE branch = "Rule" -> RuleCols
      [] branch = "Zone" -> ZoneCols
      [] OTHER -> Tail(ZoneCols)

ColumnResults ==
    CASE branch = "Rule" ->
             <<parseRuleNAME(fields[2]), parseRuleFROM(fields[3]),
               parseRuleTO(fields[4], parseRuleFROM(fields[3]).v),
               parseRuleIN(fields[6]), parseRuleON(fields[7]),
               parseRuleAT(fields[8]), parseRuleSAVE(fields[9]),
               parseRuleLETTERS(fields[10])>>
      [] branch = "Zone" ->
             <<parseZoneNAME(fields[2])>> \o zoneColumns(fields, 3)
      [] OTHER -> zoneColumns(fields, 1)

\* C19: when one field or more of a Rule, Zone or continuation line with
\* an accepted count of fields is invalid, the line parser still evaluates
\* every field and returns an error with exactly one entry for each invalid
\* field.
C19_FieldErrorsAccumulated ==
    (/\ FieldCountAccepted
     /\ \E k \in 1..Len(ColumnResults) :
            ColumnResults[k].err \notin {"", "panic"})
        => /\ ~lineRet.panics
           /\ Len(lineRet.errs)
                  = Cardinality({k \in 1..Len(ColumnResults) :
                                     ColumnResults[k].err # ""})
           /\ \A k \in 1..Len(ColumnResults) :
                  ColumnResults[k].err # ""
                      <=> \E i \in 1..Len(lineRet.errs) :
                              lineRet.errs[i] = ColumnNames[k]

\* C20: Has(parts) is true if and only if all the bits of parts are set in
\* the receiver; so the Parts of a year-only UNTIL have none of UntilMonth,
\* UntilDay and UntilTime.
C20_HasAllBits ==
    hasRet.called => (hasRet.ret <=> hasRet.parts \subseteq hasRet.p)

-----------------------------------------------------------------------------
(* The calendar functions, each applied once to a date drawn from a set of *)
(* years around year 0 and of far years.                                   *)

\* The years -MaxCalYear .. MaxCalYear are all drawn.
MaxCalYear == 201

FarYears == {-9999, -9998, -2000, -400, 400, 1900, 1970, 2000, 2024, 9998, 9999}

CalYears == (-MaxCalYear..MaxCalYear) \cup FarYears

\* The years whose seconds since 1970 the 32 bits of the integers of the
\* checker hold; the int64 of the source holds those of all years.
NearYears == {1970, 2000, 2024}

\* The calendar the results are compared with: floor arithmetic from the
\* days of 1970-01-01, a Thursday.
RefLeap(y) == y % 4 = 0 /\ (y % 100 # 0 \/ y % 400 = 0)

RefDaysInMonth(m, y) ==
    IF m = 2 THEN (IF RefLeap(y) THEN 29 ELSE 28)
    ELSE IF m \in {4, 6, 9, 11} THEN 30 ELSE 31

RefLeapsBefore(y) == (y - 1) \div 4 - (y - 1) \div 100 + (y - 1) \div 400

RECURSIVE RefDaysBefore(_, _)
RefDaysBefore(m, y) ==
    IF m = 1 THEN 0 ELSE RefDaysBefore(m - 1, y) + RefDaysInMonth(m - 1, y)

RefDays(y, m, d) ==
    365 * (y - 1970) + RefLeapsBefore(y) - RefLeapsBefore(1970)
    + RefDaysBefore(m, y) + d - 1

RefWeekday(y, m, d) == (RefDays(y, m, d) + 4) % 7

\* The date of a number of days since 1970-01-01: the inverse computation.
CivilOf(era, doe, yoe) ==
    LET doy == doe - (365 * yoe + yoe \div 4 - yoe \div 100)
        mp == (5 * doy + 2) \div 153
        m == IF mp < 10 THEN mp + 3 ELSE mp - 9
    IN  <<yoe + era * 400 + (IF m <= 2 THEN 1 ELSE 0), m,
          doy - (153 * mp + 2) \div 5 + 1>>

CivilFromDoe(era, doe) ==
    CivilOf(era, doe,
            (doe - doe \div 1460 + doe \div 36524 - doe \div 146096) \div 365)

CivilFromDays(days) ==
    CivilFromDoe((days + 719468) \div 146097,
                 (days + 719468) % 146097)

\* The days of a month drawn, and the times of day.
CalDays == {1, 2, 15, 28, 29, 30, 31}
CalTimes == {<<0, 0, 0>>, <<1, 0, 0>>, <<2, 30, 15>>, <<23, 59, 59>>}

CalCall(op, args) == [op |-> op, args |-> args, ret |-> <<>>, done |-> FALSE]

CalInit ==
    \E y \in CalYears, m \in 1..12 :
        \/ \E d \in CalDays, t \in CalTimes :
               /\ d <= RefDaysInMonth(m, y)
               /\ cal = CalCall("FromDateTime", <<y, m, d, t[1], t[2], t[3]>>)
        \/ \E d \in CalDays :
               /\ d <= RefDaysInMonth(m, y)
               /\ cal = CalCall("calculateDayOfWeek", <<d, m, y>>)
        \/ \E d \in CalDays, wd \in 0..6 :
               /\ d <= RefDaysInMonth(m, y)
               /\ cal = CalCall("After", <<y, m, d, wd>>)
        \/ \E wd \in 0..6 : cal = CalCall("Last", <<y, m, wd>>)

Returned(r) == cal' = [cal EXCEPT !.ret = r, !.done = TRUE]

CallFromDateTime ==
    /\ cal.op = "FromDateTime" /\ ~cal.done
    /\ Returned([days |-> daysFromDateTime(cal.args[1], cal.args[2],
                                           cal.args[3]),
                 secs |-> secondsFromDateTime(cal.args[4], cal.args[5],
                                              cal.args[6]),
                 near |-> cal.args[1] \in NearYears,
                 unix |-> IF cal.args[1] \in NearYears
                          THEN FromDateTime(cal.args[1], cal.args[2],
                                            cal.args[3], cal.args[4],
                                            cal.args[5], cal.args[6])
                          ELSE 0])

CallDayOfWeek ==
    /\ cal.op = "calculateDayOfWeek" /\ ~cal.done
    /\ Returned(calculateDayOfWeek(cal.args[1], cal.args[2], cal.args[3]))

CallDayOfMonthAfter ==
    /\ cal.op = "After" /\ ~cal.done
    /\ Returned(DayOfMonth(cal.args[1], cal.args[2],
                           [Form |-> DayFormAfter, Num |-> cal.args[3],
                            Day |-> cal.args[4]]))

CallDayOfMonthLast ==
    /\ cal.op = "Last" /\ ~cal.done
    /\ Returned(DayOfMonth(cal.args[1], cal.args[2],
                           [Form |-> DayFormLast, Num |-> 0,
                            Day |-> cal.args[3]]))

InitCal == CompileIdle /\ TzifIdle /\ DesigIdle /\ ParseIdle /\ CalInit

NextCal ==
    \/ CallFromDateTime /\ UNCHANGED notCal
    \/ CallDayOfWeek /\ UNCHANGED notCal
    \/ CallDayOfMonthAfter /\ UNCHANGED notCal
    \/ CallDayOfMonthLast /\ UNCHANGED notCal

SpecCal == InitCal /\ [][NextCal]_vars

\* A call of op has returned.
CalDone(op) == cal.op = op /\ cal.done

\* C21: FromDateTime returns 86400 times the days from 1970-01-01 to the
\* date plus the seconds of the time of day, for the years -9999 to 9999,
\* so the inverse computation gives the date and the time back.
C21_FromDateTimeRoundTrip ==
    CalDone("FromDateTime")
        => /\ cal.ret.days = RefDays(cal.args[1], cal.args[2], cal.args[3])
           /\ cal.ret.secs
                  = 3600 * cal.args[4] + 60 * cal.args[5] + cal.args[6]
           /\ cal.ret.secs \in 0..(secondsPerDay - 1)
           /\ CivilFromDays(cal.ret.days)
                  = <<cal.args[1], cal.args[2], cal.args[3]>>
           /\ cal.ret.near
                  => /\ cal.ret.unix
                            = 86400 * RefDays(cal.args[1], cal.args[2],
                                              cal.args[3])
                              + cal.ret.secs
                     /\ cal.ret.unix \div secondsPerDay = cal.ret.days
                     /\ cal.ret.unix % secondsPerDay = cal.ret.secs

C21_Witness ==
    /\ CalDone("FromDateTime")
    /\ cal.args = <<-9999, 2, 28, 23, 59, 59>>
    /\ cal.ret.days < 0

\* C22: calculateDayOfWeek returns the weekday of the date, 0 for Sunday to
\* 6 for Saturday, for the dates of every year, the years up to 0 included.
C22_DayOfWeekAllYears ==
    CalDone("calculateDayOfWeek")
        => cal.ret = RefWeekday(cal.args[3], cal.args[2], cal.args[1])

\* C23: DayOfMonth of the After form returns the earliest date on or after
\* day n of the month whose weekday is wd: a valid date with that weekday,
\* 0 to 6 days after the day n, in the following month when it passes the
\* end of the month.
C23_AfterIsEarliest ==
    CalDone("After")
        => /\ cal.ret[2] \in 1..12
           /\ cal.ret[3] \in 1..RefDaysInMonth(cal.ret[2], cal.ret[1])
           /\ RefWeekday(cal.ret[1], cal.ret[2], cal.ret[3]) = cal.args[4]
           /\ RefDays(cal.ret[1], cal.ret[2], cal.ret[3])
              - RefDays(cal.args[1], cal.args[2], cal.args[3]) \in 0..6

\* C24: DayOfMonth of the Last form returns the year, the month and a day
\* of the last seven of the month whose weekday is wd.
C24_LastIsInLastWeek ==
    CalDone("Last")
        => /\ cal.ret[1] = cal.args[1]
           /\ cal.ret[2] = cal.args[2]
           /\ cal.ret[3] \in (RefDaysInMonth(cal.args[2], cal.args[1]) - 6)
                             ..RefDaysInMonth(cal.args[2], cal.args[1])
           /\ RefWeekday(cal.ret[1], cal.ret[2], cal.ret[3]) = cal.args[3]

-----------------------------------------------------------------------------
(* Properties of processZoneYear, under Spec.                               *)

\* unix_seconds of 00:00:00 of the day the rule r resolves to in the year.
MidnightOf(ymd) == FromDateTime(ymd[1], ymd[2], ymd[3], 0, 0, 0)

\* C25: the universal-time occurrence of a rule in a year is the instant of
\* 00:00:00 of its resolved day plus the seconds of its AT, the hours, the
\* minutes and the seconds of the AT each counted once.
C25_UTOccIsNaiveInstant ==
    \A i \in 1..Len(irz.Transitions) :
        irz.Transitions[i].UTOcc
            = MidnightOf(DayOfMonth(irz.Transitions[i].UTOccY,
                                    irz.Transitions[i].Rule.In,
                                    irz.Transitions[i].Rule.On))
              + irz.Transitions[i].Rule.At.TimeOfDay

\* The candidate of the sorted candidates all, from the i-th on, whose real
\* instant is the first to exceed the UNTIL of the line z: its index (0 for
\* none) and its occ.  off is the offset in effect before the i-th.
RECURSIVE Trigger(_, _, _, _, _)
Trigger(z, untilAt, all, i, off) ==
    IF i > Len(all) THEN [index |-> 0, occ |-> 0]
    ELSE IF all[i].UTOcc - off > untilAt - all[i].Off + z.Offset
    THEN [index |-> i, occ |-> all[i].UTOcc - off]
    ELSE Trigger(z, untilAt, all, i + 1, all[i].Off)

\* The trigger of the year the walk is about to process.
WalkTrigger ==
    Trigger(irz.Line, Earliest(irz.Line.Until),
            SortByUTOcc(Candidates(irz.Line, walkY,
                                   activeRules(findRules(file.RuleLines,
                                                         irz.Line.Rules.Name),
                                               walkY)), 1, <<>>),
            1, walkOffset)

\* C26: when a line expires within a year, the candidate whose occ is the
\* first to exceed the UNTIL and the later ones are not emitted, those
\* before it are, and ExpiresAt is the occ of that candidate.
C26_ExpiresAtIsOcc ==
    [][(pc = "walk" /\ irz.Line.Until.Defined /\ WalkTrigger.index # 0)
           => /\ irz'.Expires
              /\ Len(irz'.Transitions)
                     = Len(irz.Transitions) + WalkTrigger.index - 1
              /\ irz'.ExpiresAt = WalkTrigger.occ]_vars

-----------------------------------------------------------------------------
(* Properties of the File that Parse returns, under SpecParse.             *)

\* Parse has returned result and a nil error.
ParsedWithoutError ==
    parseRet.done /\ ~parseRet.panics /\ parseRet.err = <<>>

\* C29: in a File that Parse returns without error every zone group is a
\* complete chain: a zone line has its UNTIL defined exactly when a
\* continuation line follows it, so the last line of each group has
\* Until.Defined = FALSE and every earlier one TRUE, and no File is returned
\* without error while a continuation line is still expected.
C29_ReturnedChainsComplete ==
    ParsedWithoutError =>
        /\ ~continuationExpected
        /\ \A i \in 1..Len(parsed.ZoneLines) :
               parsed.ZoneLines[i].Until.Defined
                   <=> /\ i < Len(parsed.ZoneLines)
                       /\ parsed.ZoneLines[i + 1].Continuation

-----------------------------------------------------------------------------
(* appendDesignation on pools that pass 255 bytes.  A designation is the   *)
(* expanded FORMAT of a zone line, a string of any length.                 *)

MaxDesigLen == 127

MaxPoolAdds == 4

\* A designation of MaxDesigLen bytes, "AA...A" with the last byte k letters
\* after "A": no two of them share a suffix.
LongDesig(k) == [i \in 1..MaxDesigLen |-> IF i = MaxDesigLen THEN 65 + k ELSE 65]

\* The designations handed to appendDesignation: "LMT", "ST", "T" and three
\* long ones.
PoolDesigs ==
    {<<76, 77, 84>>, <<83, 84>>, <<84>>, LongDesig(1), LongDesig(2),
     LongDesig(3)}

\* One call of appendDesignation on the pool, with a short or a long
\* designation.
AppendPoolDesignation ==
    \E desig \in PoolDesigs :
        /\ Len(added) < MaxPoolAdds
        /\ designations' = appendDesignation(designations, desig).designations
        /\ idxs' = Append(idxs, appendDesignation(designations, desig).idx)
        /\ added' = Append(added, desig)

InitPool == CompileIdle /\ TzifIdle /\ DesigIdle /\ ParseIdle /\ CalIdle

NextPool == AppendPoolDesignation /\ UNCHANGED notDesig

SpecPool == InitPool /\ [][NextPool]_vars

\* The bytes of pool from index idx (from zero) are s and a NUL.
Addresses(pool, idx, s) ==
    /\ idx + Len(s) + 1 <= Len(pool)
    /\ SubSeq(pool, idx + 1, idx + Len(s) + 1) = s \o <<0>>

\* C30: after any sequence of calls of appendDesignation on a pool that
\* started empty, every index returned so far addresses its designation: the
\* bytes of the pool from the index are the designation and a NUL, also in
\* pools of more than 255 bytes.
C30_IndicesAddressDesignations ==
    \A i \in 1..Len(added) : Addresses(designations, idxs[i], added[i])

-----------------------------------------------------------------------------
(* The year walk of processZone near the safety bound.                     *)

\* Rule R <from> min - Mar lastSun 1:00 1:00 S: a rule that is active in no
\* year, its TO being the indefinite past.
NeverActive(from) ==
    RuleLine("R", from, MinYear, 3, LastSunday, Hour, Hour,
             DaylightSavingTime, <<83>>)

\* The FROM of the rule: below the safety bound, the bound, and above it.
WalkFroms == {SafetyBound - 3, SafetyBound, SafetyBound + 1}

RulesR == [Form |-> ZoneRulesName, Name |-> "R", Time |-> NoTime]

\* Zone Z 1:00 R C%sT 1972 with the continuation 1:00 - LMT, and
\* Zone Z 1:00 R C%sT.
WalkZones ==
    {<<ZoneLine(1, "Z", Hour, RulesR, UntilOfLine(1)),
       ZoneLine(2, "Z", Hour, [Form |-> ZoneRulesStandard, Name |-> "", Time |-> NoTime], NoUntil)>>,
     <<ZoneLine(1, "Z", Hour, RulesR, NoUntil)>>}

WalkFiles ==
    {[RuleLines |-> <<NeverActive(from)>>, ZoneLines |-> zl] :
        from \in WalkFroms, zl \in WalkZones}
    \cup {[RuleLines |-> ForeverRules, ZoneLines |-> zl] : zl \in WalkZones}

InitWalk ==
    /\ file \in WalkFiles
    /\ pc = "compile"
    /\ pending = zoneNames(file)
    /\ result = NoData
    /\ ret = [nil |-> TRUE, data |-> NoData, err |-> ""]
    /\ cur = ""
    /\ li = 0
    /\ irzs = <<>>
    /\ perr = ""
    /\ walkY = 0
    /\ walkOffset = 0
    /\ irz = EmptyZone(NoLine)
    /\ v1stub \in V1Stubs
    /\ TzifIdle /\ DesigIdle /\ ParseIdle /\ CalIdle

SpecWalk == InitWalk /\ [][Next]_vars

\* C28: the year loop of processZone processes no year beyond the safety
\* bound 9999, whatever the first year of the rule set is: it returns the
\* error once the bound is reached.
C28_WalkWithinSafetyBound == pc = "walk" => walkY <= SafetyBound

-----------------------------------------------------------------------------
(* processZoneYear on the active rules of one year, up to the least number *)
(* of candidates that sort.Slice does not sort by insertion.               *)

\* Rule R 1970 max - <month key> 1 0:00 0 <letter k>: the k-th rule line of
\* the file, whose occurrence is the first day of month key.
SortRule(k, key) ==
    RuleLine("R", BaseYear, MaxYear, key,
             [Form |-> DayFormNum, Num |-> 1, Day |-> 0], 0, 0, StandardTime,
             <<64 + k>>)

\* The months 1 to n - 1 in order, month p twice.
KeysWithTie(n, p) == [i \in 1..n |-> IF i <= p THEN i ELSE i - 1]

SwapKeys(keys, i, j) == [keys EXCEPT ![i] = keys[j], ![j] = keys[i]]

\* The rule files: 2 to maxInsertion + 1 rules with one pair of equal
\* occurrences, in the order of the occurrences or with two rules exchanged.
SortInputs ==
    {[k \in 1..n |-> SortRule(k, SwapKeys(KeysWithTie(n, p), i, j)[k])] :
        <<n, p, i, j>> \in
            {q \in (2..(maxInsertion + 1)) \X (1..maxInsertion)
                   \X (1..(maxInsertion + 1)) \X (1..(maxInsertion + 1)) :
                q[2] < q[1] /\ q[3] <= q[4] /\ q[4] <= q[1]}}

SortZone == ZoneLine(1, "Z", Hour, RulesR, NoUntil)

SortInit == \E ars \in SortInputs : cal = CalCall("processZoneYear", ars)

\* processZone calls processZoneYear for the year BaseYear with the active
\* rules ars.
CallProcessZoneYear ==
    /\ cal.op = "processZoneYear" /\ ~cal.done
    /\ Returned(processZoneYear(SortZone, BaseYear,
                                activeRules(cal.args, BaseYear), 0))

InitSort == CompileIdle /\ TzifIdle /\ DesigIdle /\ ParseIdle /\ SortInit

NextSort == CallProcessZoneYear /\ UNCHANGED notCal

SpecSort == InitSort /\ [][NextSort]_vars

\* The place of the rule of transition t among the rule lines rl.
DefinitionIndex(rl, t) == CHOOSE k \in 1..Len(rl) : rl[k] = t.Rule

\* C27: the transitions of one year come out in ascending order of UTOcc, and
\* those of equal UTOcc in the order in which their rule lines stand in the
\* file.
C27_TiesInDefinitionOrder ==
    CalDone("processZoneYear")
        => \A i, j \in 1..Len(cal.ret.transitions) :
               i < j =>
                   /\ cal.ret.transitions[i].UTOcc
                          <= cal.ret.transitions[j].UTOcc
                   /\ cal.ret.transitions[i].UTOcc
                          = cal.ret.transitions[j].UTOcc
                        => DefinitionIndex(cal.args, cal.ret.transitions[i])
                           < DefinitionIndex(cal.args, cal.ret.transitions[j])

=============================================================================
